---------------------------- MODULE Spec2Model ----------------------------
(***************************************************************************)
(* A model of vbspview's asset-to-geometry pipeline: the asset Loader, the *)
(* MaterialSet (material table), the material resolver, the world geometry *)
(* extractor and the prop placement resolver.                             *)
(*                                                                         *)
(* Strings are sequences of one-character strings, so that the string      *)
(* conversions of the code (to_ascii_lowercase, trim_end_matches,          *)
(* trim_start_matches, format!) are computed and not assumed.              *)
(***************************************************************************)
EXTENDS Integers, Sequences, FiniteSets, TLC

VARIABLES
    loader,      \* Loader: the indexed archive volumes and the embedded pack
    materials,   \* MaterialSet.materials: RefCell<Vec<String>>
    set_state,   \* "live" while the MaterialSet exists, "drained" after into_materials
    drained,     \* the Vec<String> returned by into_materials
    calls,       \* history: every get_index call made, with what it returned
    ncalls,      \* history: the number of get_index calls made
    mat_name,    \* the material name handed to the material resolver
    mat_assets,  \* what the loader holds for that material and its textures
    mat_op,      \* the resolver function that has run ("" before it has)
    mat_result,  \* the Result of load_material
    mat_out,     \* what the function that ran returned to its caller
    mat_loads,   \* the texture files that run asked the loader for, in order
    level,       \* the level container handed to the pipeline
    pipe_op,     \* the pipeline function that has run ("" before it has)
    pipe_order,  \* the orders in which that run iterated its HashMaps
    pipe_out,    \* the Result that function returned
    borrow,      \* the borrow flag of the RefCell of MaterialSet.materials
    workers,     \* the get_index calls in progress on one shared MaterialSet
    fn_op,       \* the numeric function that has run ("" before it has)
    fn_in,       \* its arguments
    fn_out,      \* what it returned
    analyzer,    \* PovAnalyzer: the fields of the demo analyser
    camera,      \* DemoCamera: the fields of the playback control
    first_person \* FirstPerson: the fields of the free-flight control

ldVars == <<loader>>
msVars == <<materials, set_state, drained, calls, ncalls>>
matVars == <<mat_name, mat_assets, mat_op, mat_result, mat_out, mat_loads>>

pipeVars == <<level, pipe_op, pipe_order, pipe_out>>
wkVars == <<borrow, workers>>
fnVars == <<fn_op, fn_in, fn_out>>
uiVars == <<analyzer, camera, first_person>>

vars == <<ldVars, msVars, matVars, pipeVars, wkVars, fnVars, uiVars>>

\* the variables of the components other than the one named
notSet == <<matVars, pipeVars, wkVars, fnVars, uiVars>>
notMaterial == <<ldVars, msVars, pipeVars, wkVars, fnVars, uiVars>>
notPipeline == <<msVars, matVars, wkVars, fnVars, uiVars>>
notWorkers == <<set_state, drained, calls, ncalls, matVars, pipeVars, fnVars, uiVars>>
notFn == <<ldVars, msVars, matVars, pipeVars, wkVars, uiVars>>
notAnalyzer == <<ldVars, msVars, matVars, pipeVars, wkVars, fnVars, camera, first_person>>
notCamera == <<ldVars, msVars, matVars, pipeVars, wkVars, fnVars, analyzer, first_person>>
notFirstPerson == <<ldVars, msVars, matVars, pipeVars, wkVars, fnVars, analyzer, camera>>

-----------------------------------------------------------------------------
(* Bounds of the model.                                                    *)

\* get_index calls per run of the MaterialSet
MaxCalls == 3

\* placements in a level
MaxProps == 2

\* faces in the model handed to model_to_model
MaxFaces == 6

\* faces in the model handed to model_to_mesh
MaxMeshFaces == 3

\* handler calls the demo parser makes on one PovAnalyzer
MaxDemoCalls == 4

\* the demo ticks run from 1 to MaxTick
MaxTick == 3

\* input is given to the DemoCamera in the frames before MaxTime (ms)
MaxTime == 25

\* the frames the FirstPerson control handles
MaxFrames == 3

-----------------------------------------------------------------------------
(* Strings.                                                                *)

\* Option<T>: None is the empty sequence, Some(x) the sequence of x alone
None == <<>>
Some(x) == <<x>>
IsSome(o) == Len(o) = 1
Unwrap(o) == o[1]

\* Result<T, Error>
Ok(x) == [ok |-> TRUE, val |-> <<x>>, err |-> ""]
Err(e) == [ok |-> FALSE, val |-> <<>>, err |-> e]

\* char::to_ascii_lowercase on the alphabet the model uses
LowerChar(c) ==
    CASE c = "A" -> "a"
      [] c = "B" -> "b"
      [] c = "D" -> "d"
      [] c = "E" -> "e"
      [] c = "V" -> "v"
      [] c = "M" -> "m"
      [] c = "T" -> "t"
      [] OTHER   -> c

\* str::to_ascii_lowercase
ToAsciiLowercase(s) == [i \in 1..Len(s) |-> LowerChar(s[i])]

\* str::ends_with / str::starts_with
EndsWith(s, pat) ==
    /\ Len(pat) <= Len(s)
    /\ SubSeq(s, Len(s) - Len(pat) + 1, Len(s)) = pat

StartsWith(s, pat) ==
    /\ Len(pat) <= Len(s)
    /\ SubSeq(s, 1, Len(pat)) = pat

\* str::trim_end_matches(pat): strips the suffix pat as often as it occurs
RECURSIVE TrimEndMatches(_, _)
TrimEndMatches(s, pat) ==
    IF Len(pat) > 0 /\ EndsWith(s, pat)
    THEN TrimEndMatches(SubSeq(s, 1, Len(s) - Len(pat)), pat)
    ELSE s

\* str::trim_start_matches(pat): strips the prefix pat as often as it occurs
RECURSIVE TrimStartMatches(_, _)
TrimStartMatches(s, pat) ==
    IF Len(pat) > 0 /\ StartsWith(s, pat)
    THEN TrimStartMatches(SubSeq(s, Len(pat) + 1, Len(s)), pat)
    ELSE s

Slash == <<"/">>
DotVmt == <<".", "v", "m", "t">>
DotVtf == <<".", "v", "t", "f">>
Bsp == <<"b", "s", "p">>
MaterialsSlash == <<"m", "a", "t", "e", "r", "i", "a", "l", "s", "/">>

-----------------------------------------------------------------------------
(* Loader (src/src/loader.rs).  tf_dir and download are directories of the *)
(* file system, vpks is the list of archive volumes (each a tree of        *)
(* names), pack is the level's embedded package (None until set_pack), and *)
(* unreadable holds the files (container and name) whose read fails.       *)

\* Loader::exists; a pack entry that cannot be read counts as absent
\* (pack.get(name).ok().flatten())
Exists(l, name) ==
    \/ /\ EndsWith(name, Bsp)
       /\ (name \in l.tf_dir \/ name \in l.download)
    \/ \E i \in 1..Len(l.vpks) : name \in l.vpks[i]
    \/ /\ IsSome(l.pack)
       /\ name \in Unwrap(l.pack)
       /\ <<"pack", name>> \notin l.unreadable

\* Loader::load: the bytes of a file are identified by its name; the read
\* of a file that is found can fail (fs::read(path)?, pack.get(name)?,
\* entry.get()?), and load returns that error
Load(l, name) ==
    IF EndsWith(name, Bsp) /\ (name \in l.tf_dir \/ name \in l.download)
    THEN IF <<"fs", name>> \in l.unreadable THEN Err("IO") ELSE Ok(name)
    ELSE IF IsSome(l.pack) /\ name \in Unwrap(l.pack)
    THEN IF <<"pack", name>> \in l.unreadable THEN Err("Pack") ELSE Ok(name)
    ELSE IF \E i \in 1..Len(l.vpks) : name \in l.vpks[i]
    THEN IF <<"vpk", name>> \in l.unreadable THEN Err("IO") ELSE Ok(name)
    ELSE Err("ResourceNotFound")

\* Loader::set_pack
SetPack(l, pack) == [l EXCEPT !.pack = Some(pack)]

\* Loader::find_in_paths: the first path, in order, under which name exists
RECURSIVE FindInPaths(_, _, _)
FindInPaths(l, name, paths) ==
    IF paths = <<>> THEN None
    ELSE LET full_path == Head(paths) \o name
         IN  IF Exists(l, full_path) THEN Some(full_path)
             ELSE FindInPaths(l, name, Tail(paths))

-----------------------------------------------------------------------------
(* MaterialSet (src/src/material.rs).                                      *)

\* the search_path vector built at the head of get_index
SearchPath(search_paths) ==
    [i \in 1..Len(search_paths) |->
        MaterialsSlash \o TrimStartMatches(ToAsciiLowercase(search_paths[i]), Slash)]

\* a mutant of MaterialName: the name keeps its letter case
MaterialName_KeepsCase(name) == TrimEndMatches(name, DotVmt) \o DotVmt

\* the material name built in get_index: lowercased, one ".vmt" at its end
MaterialName(name) == TrimEndMatches(ToAsciiLowercase(name), DotVmt) \o DotVmt

\* a mutant of ResolveMaterial: the search paths are not probed
ResolveMaterial_NoSearch(l, info) == MaterialName(info.name)

\* the string get_index looks up and stores for a TextureInfo
ResolveMaterial(l, info) ==
    LET search_path == SearchPath(info.search_paths)
        material    == MaterialName(info.name)
    IN  IF search_path = <<>> THEN material
        ELSE LET found == FindInPaths(l, material, search_path)
             IN  IF IsSome(found) THEN Unwrap(found) ELSE material

\* a mutant of FindIndex: the lookup never matches
FindIndex_NeverMatches(mats, material) == None

\* materials.iter().enumerate().find_map(..): the first position (from 0)
\* holding material, or None
FindIndex(mats, material) ==
    IF \E i \in 1..Len(mats) : mats[i] = material
    THEN Some((CHOOSE i \in 1..Len(mats) :
                  /\ mats[i] = material
                  /\ \A j \in 1..(i - 1) : mats[j] # material) - 1)
    ELSE None

\* a mutant of Push: the new entry goes to the front
Push_Front(mats, material) == <<material>> \o mats

\* Vec::push
Push(mats, material) == Append(mats, material)

\* the index get_index returns
GetIndexResult(mats, material) ==
    LET found == FindIndex(mats, material)
    IN  IF IsSome(found) THEN Unwrap(found) ELSE Len(mats)

\* the table get_index leaves
GetIndexTable(mats, material) ==
    IF IsSome(FindIndex(mats, material)) THEN mats ELSE Push(mats, material)

\* MaterialSet::into_materials: RefCell::into_inner
IntoMaterials(mats) == mats

-----------------------------------------------------------------------------
(* Inputs of the MaterialSet runs.                                         *)

\* TextureInfo.name
TextureNames ==
    { <<"a">>, <<"A">>, <<"a", ".", "v", "m", "t">>, <<"b">> }

\* TextureInfo.search_paths
SearchPathLists ==
    { <<>>,
      << <<"d", "/">> >>,
      << <<"/", "D", "/">> >>,
      << <<"d", "/">>, <<"e", "/">> >>,
      << <<"e", "/">>, <<"d", "/">> >> }

TextureInfos == [name : TextureNames, search_paths : SearchPathLists]

\* the contents an archive volume can have
File_d_a == MaterialsSlash \o <<"d", "/", "a">> \o DotVmt
File_e_a == MaterialsSlash \o <<"e", "/", "a">> \o DotVmt
File_d_b == MaterialsSlash \o <<"d", "/", "b">> \o DotVmt

\* the loaders of the model: one archive volume, with or without a pack
Loaders ==
    { [tf_dir |-> {}, download |-> {}, vpks |-> <<>>, pack |-> None, unreadable |-> {}],
      [tf_dir |-> {}, download |-> {}, vpks |-> << {File_d_a} >>, pack |-> None, unreadable |-> {}],
      [tf_dir |-> {}, download |-> {}, vpks |-> << {File_e_a} >>,
       pack |-> Some({File_d_b}), unreadable |-> {}],
      [tf_dir |-> {}, download |-> {}, vpks |-> << {File_e_a}, {File_d_a} >>,
       pack |-> Some({File_d_b}), unreadable |-> {}] }

-----------------------------------------------------------------------------
(* The MaterialSet state machine.                                          *)

InitSet ==
    /\ loader \in Loaders
    /\ materials = <<>>        \* MaterialSet::new: RefCell::default()
    /\ set_state = "live"
    /\ drained = <<>>
    /\ calls = {}
    /\ ncalls = 0

\* MaterialSet::get_index(&self, material: &TextureInfo)
GetIndex(info) ==
    /\ set_state = "live"
    /\ ncalls < MaxCalls
    /\ LET material == ResolveMaterial(loader, info)
           index    == GetIndexResult(materials, material)
       IN  /\ materials' = GetIndexTable(materials, material)
           /\ calls' = calls \cup
                 { [info |-> info, material |-> material, index |-> index,
                    len_before |-> Len(materials), seq |-> ncalls,
                    known |-> \E i \in 1..Len(materials) : materials[i] = material] }
    /\ ncalls' = ncalls + 1
    /\ UNCHANGED <<loader, set_state, drained>>
    /\ UNCHANGED notSet

\* MaterialSet::into_materials(self)
DoIntoMaterials ==
    /\ set_state = "live"
    /\ set_state' = "drained"
    /\ drained' = IntoMaterials(materials)
    /\ UNCHANGED <<loader, materials, calls, ncalls>>
    /\ UNCHANGED notSet

-----------------------------------------------------------------------------
(* Claims about the MaterialSet.                                           *)

\* C1: after any sequence of get_index calls against an unchanged loader,
\* two calls with an equal (material name, search-path list) key returned
\* the same index, and the table holds no two equal entries.
C1_EqualKeySameIndex ==
    /\ \A c1, c2 \in calls : c1.info = c2.info => c1.index = c2.index
    /\ \A i, j \in 1..Len(materials) : materials[i] = materials[j] => i = j

\* C1 witness: the same key was looked up twice, in a table of two entries
C1_Witness ==
    /\ Len(materials) >= 2
    /\ \E c1, c2 \in calls :
          /\ c1.seq < c2.seq
          /\ c1.info = c2.info
          /\ c1.info.search_paths # <<>>
          /\ c1.index = c2.index

\* two material names that differ only in ASCII letter case or in a
\* trailing ".vmt"
C28_SameName(n1, n2) ==
    LET l1 == ToAsciiLowercase(n1)
        l2 == ToAsciiLowercase(n2)
    IN  \/ l1 = l2
        \/ l1 = l2 \o DotVmt
        \/ l2 = l1 \o DotVmt

\* C28: two get_index calls on one MaterialSet whose material names differ
\* only in ASCII letter case or in a trailing ".vmt", with the same search
\* paths, returned the same index.
C28_NormalizedKey ==
    \A c1, c2 \in calls :
        (/\ c1.info.search_paths = c2.info.search_paths
         /\ C28_SameName(c1.info.name, c2.info.name))
        => c1.index = c2.index

\* C28 witness: three spellings of one name were looked up with the same
\* search paths after another entry had taken index 0
C28_Witness ==
    \E c1, c2, c3 \in calls :
        /\ c1.info.name = <<"A">>
        /\ c2.info.name = <<"a", ".", "v", "m", "t">>
        /\ c3.info.name = <<"b">>
        /\ c3.seq < c1.seq
        /\ c1.seq < c2.seq
        /\ c1.info.search_paths = c2.info.search_paths
        /\ c1.info.search_paths # <<>>
        /\ c1.index = 1
        /\ c2.index = 1

\* C2, the state part: a call with an entry not yet in the table returned
\* the table's previous length; every index returned still selects the
\* entry it was returned for; into_materials yields the entries so that
\* position i holds the entry that was assigned index i.
C2_Indices ==
    /\ \A c \in calls :
          /\ ~c.known => c.index = c.len_before
          /\ c.index < Len(materials)
          /\ materials[c.index + 1] = c.material
    /\ set_state = "drained" =>
          /\ Len(drained) = Len(materials)
          /\ \A c \in calls : drained[c.index + 1] = c.material

\* C2, the step part: a call with an entry in the table leaves the table
\* unchanged, any other call appends its entry, and no step changes an
\* entry the table already holds.
C2_Step ==
    /\ Len(materials') >= Len(materials)
    /\ SubSeq(materials', 1, Len(materials)) = materials
    /\ \A c \in calls' \ calls :
          IF c.known THEN materials' = materials
          ELSE materials' = Append(materials, c.material)

\* C2: the MaterialSet is insertion-ordered with stable indices.
C2_InsertionOrdered == [](C2_Indices) /\ [][C2_Step]_msVars

\* C2 witness: a table of two entries, one of them looked up again after
\* the other was appended, has been drained.
C2_Witness ==
    /\ set_state = "drained"
    /\ Len(drained) >= 2
    /\ \E c1, c2 \in calls :
          /\ c1.known
          /\ c1.index = 0
          /\ c2.index = 1
          /\ c2.seq < c1.seq

\* two keys with the same material name whose search-path lists hold the
\* same prefixes in a different order
C12_Reordered(i1, i2) ==
    /\ i1.name = i2.name
    /\ i1.search_paths # i2.search_paths
    /\ Len(i1.search_paths) = Len(i2.search_paths)
    /\ { i1.search_paths[k] : k \in 1..Len(i1.search_paths) }
          = { i2.search_paths[k] : k \in 1..Len(i2.search_paths) }

\* the file the loader holds for a key: the material under the prefix, first
\* in list order, under which it exists; None when it is under no prefix
C12_FirstHit(l, info) ==
    LET file(k) == <<"m", "a", "t", "e", "r", "i", "a", "l", "s", "/">>
                      \o TrimStartMatches(ToAsciiLowercase(info.search_paths[k]), <<"/">>)
                      \o TrimEndMatches(ToAsciiLowercase(info.name), DotVmt) \o DotVmt
        hits == { k \in 1..Len(info.search_paths) : Exists(l, file(k)) }
    IN  IF hits = {} THEN None
        ELSE Some(file(CHOOSE k \in hits : \A h \in hits : k <= h))

\* C12, as claimed: two get_index lookups with the same material name
\* whose search-path lists hold the same prefixes in a different order
\* receive distinct indices.
C12_ReorderedDistinct ==
    \A c1, c2 \in calls :
        C12_Reordered(c1.info, c2.info) => c1.index # c2.index

\* C12, amended: two such lookups receive distinct indices exactly when
\* the loader holds the material under different first prefixes, in list
\* order, for the two lists; they receive the same index when the file
\* found is the same or the material is under no prefix.
C12_ReorderedByFirstHit ==
    \A c1, c2 \in calls :
        C12_Reordered(c1.info, c2.info) =>
            ((c1.index = c2.index)
                <=> (C12_FirstHit(loader, c1.info) = C12_FirstHit(loader, c2.info)))

\* C12 witness: the material is under both prefixes, and the two orders
\* of the prefixes got two indices
C12_Witness ==
    \E c1, c2 \in calls :
        /\ C12_Reordered(c1.info, c2.info)
        /\ IsSome(C12_FirstHit(loader, c1.info))
        /\ C12_FirstHit(loader, c1.info) # C12_FirstHit(loader, c2.info)
        /\ c1.index # c2.index

-----------------------------------------------------------------------------
(* The material resolver (src/src/material.rs).                            *)

\* MaterialData::default()
MaterialDataDefault ==
    [path |-> <<>>, color |-> <<0, 0, 0, 0>>, texture |-> None,
     alpha_test |-> None, bump_map |-> None, translucent |-> FALSE]

\* the path load_material reads the description from
MaterialPath(path) ==
    IF StartsWith(path, MaterialsSlash) THEN path
    ELSE MaterialsSlash \o TrimEndMatches(ToAsciiLowercase(path), DotVmt) \o DotVmt

\* the path load_texture reads the image from
TexturePath(name) ==
    MaterialsSlash \o TrimStartMatches(TrimEndMatches(name, DotVtf), Slash) \o DotVtf

\* load_texture: the file is loaded, read as a VTF and its mip level 0 decoded
LoadTexture(name, vtf) ==
    CASE vtf = "io_error"    -> Err("IO")
      [] vtf = "missing"     -> Err("ResourceNotFound")
      [] vtf = "bad_vtf"     -> Err("Vtf")
      [] vtf = "undecodable" -> Err("Vtf")
      [] OTHER               -> Ok([of |-> TexturePath(name)])

\* a mutant of BumpMap: a bump map that fails to load is kept, without image
BumpMap_KeepsFailed(a) ==
    IF IsSome(a.bump_map)
    THEN LET image == LoadTexture(Unwrap(a.bump_map), a.bump_vtf)
         IN  Some([name |-> Unwrap(a.bump_map), image |-> image.val])
    ELSE None

\* the bump_map of load_material: and_then with load_texture(..).ok()?
BumpMap(a) ==
    IF IsSome(a.bump_map)
    THEN LET image == LoadTexture(Unwrap(a.bump_map), a.bump_vtf)
         IN  IF image.ok
             THEN Some([name |-> Unwrap(a.bump_map), image |-> Unwrap(image.val)])
             ELSE None
    ELSE None

\* a mutant of WaterMaterialData: the descriptor is not translucent
WaterMaterialData_Opaque(path) ==
    [MaterialDataDefault EXCEPT
        !.color = <<82, 180, 217, 128>>,
        !.path = path]

\* the descriptor load_material returns for water without a base texture
WaterMaterialData(path) ==
    [MaterialDataDefault EXCEPT
        !.color = <<82, 180, 217, 128>>,
        !.path = path,
        !.translucent = TRUE]

\* the files load_material calls load_texture for, in the order of the calls
TextureLoads(a) ==
    IF a.vmt # "ok" THEN <<>>
    ELSE IF a.shader = "water" /\ a.base_texture = None THEN <<>>
    ELSE IF a.base_texture = None THEN <<>>
    ELSE <<TexturePath(Unwrap(a.base_texture))>>
            \o (IF LoadTexture(Unwrap(a.base_texture), a.base_vtf).ok /\ IsSome(a.bump_map)
                THEN <<TexturePath(Unwrap(a.bump_map))>>
                ELSE <<>>)

\* load_material
LoadMaterial(name, a) ==
    LET path == MaterialPath(name)
    IN  CASE a.vmt = "io_error"    -> Err("IO")
          [] a.vmt = "missing"     -> Err("ResourceNotFound")
          [] a.vmt = "not_utf8"    -> Err("String")
          [] a.vmt = "unparseable" -> Err("Other: Failed to load material")
          [] a.vmt = "patch_fails" -> Err("Other: patch")
          [] OTHER ->
             IF a.shader = "water" /\ a.base_texture = None
             THEN Ok(WaterMaterialData(path))
             ELSE IF a.base_texture = None
             THEN Err("Other: no base texture")
             ELSE LET base_texture == Unwrap(a.base_texture)
                      glass   == a.surface_prop = Some("glass")
                      texture == LoadTexture(base_texture, a.base_vtf)
                  IN  IF ~texture.ok THEN texture
                      ELSE Ok([path |-> path,
                               color |-> <<255, 255, 255, 255>>,
                               texture |-> Some([name |-> base_texture,
                                                 image |-> Unwrap(texture.val)]),
                               bump_map |-> BumpMap(a),
                               alpha_test |-> a.alpha_test,
                               translucent |-> a.translucent \/ glass])

\* a mutant of LoadMaterialFallback: the error is handed on to the caller
LoadMaterialFallback_Propagates(name, a) == LoadMaterial(name, a)

\* load_material_fallback
LoadMaterialFallback(name, a) ==
    LET r == LoadMaterial(name, a)
    IN  IF r.ok THEN r
        ELSE Ok([MaterialDataDefault EXCEPT
                   !.path = name,
                   !.color = <<255, 0, 255, 255>>])

\* load_texture of src/src/bsp.rs: <name>.vtf is loaded from the search
\* paths, read as a VTF and its mip level 0 decoded
BspLoadTexture(name, vtf) ==
    CASE vtf = "io_error"    -> Err("IO")
      [] vtf = "missing"     -> Err("ResourceNotFound")
      [] vtf = "bad_vtf"     -> Err("Vtf")
      [] vtf = "undecodable" -> Err("Vtf")
      [] OTHER               -> Ok([name |-> name, image |-> [of |-> name \o DotVtf]])

\* prop_texture_to_material of src/src/bsp.rs
PropTextureToMaterial(name, a) ==
    LET texture == BspLoadTexture(name, a.base_vtf)
    IN  IF texture.ok
        THEN Ok([albedo |-> <<255, 255, 255, 255>>, name |-> name,
                 albedo_texture |-> Some(Unwrap(texture.val))])
        ELSE Ok([albedo |-> <<255, 0, 255, 255>>, name |-> name,
                 albedo_texture |-> None])

\* the material names of the model
MaterialNames ==
    { <<"a">>, <<"A", ".", "V", "M", "T">>, MaterialsSlash \o <<"a">> \o DotVmt }

VmtStates == {"io_error", "missing", "not_utf8", "unparseable", "patch_fails", "ok"}
VtfStates == {"io_error", "missing", "bad_vtf", "undecodable", "ok"}

\* what the loader and the parsers give for one material
MaterialAssets ==
    [vmt : VmtStates,
     shader : {"water", "lightmappedgeneric"},
     base_texture : {None, Some(<<"/", "t">>)},
     translucent : BOOLEAN,
     surface_prop : {None, Some("glass")},
     alpha_test : {None, Some(1)},
     base_vtf : VtfStates,
     bump_map : {None, Some(<<"n", ".", "v", "t", "f">>)},
     bump_vtf : {"missing", "undecodable", "ok"}]

InitMaterial ==
    /\ mat_name \in MaterialNames
    /\ mat_assets \in MaterialAssets
    /\ mat_op = ""
    /\ mat_result = Err("")
    /\ mat_out = Err("")
    /\ mat_loads = <<>>

\* a caller resolves the material with load_material_fallback
DoLoadMaterialFallback ==
    /\ mat_op = ""
    /\ mat_op' = "load_material_fallback"
    /\ mat_result' = LoadMaterial(mat_name, mat_assets)
    /\ mat_out' = LoadMaterialFallback(mat_name, mat_assets)
    /\ mat_loads' = TextureLoads(mat_assets)
    /\ UNCHANGED <<mat_name, mat_assets>>
    /\ UNCHANGED notMaterial

\* a caller resolves a prop texture with bsp.rs's prop_texture_to_material
DoPropTextureToMaterial ==
    /\ mat_op = ""
    /\ mat_op' = "prop_texture_to_material"
    /\ mat_result' = BspLoadTexture(mat_name, mat_assets.base_vtf)
    /\ mat_out' = PropTextureToMaterial(mat_name, mat_assets)
    /\ mat_loads' = <<mat_name \o DotVtf>>
    /\ UNCHANGED <<mat_name, mat_assets>>
    /\ UNCHANGED notMaterial

-----------------------------------------------------------------------------
(* Claims about the material resolver.                                     *)

\* the steps at which, by the claim, load_material fails
C3_FailsAtSomeStep(a) ==
    \/ a.vmt # "ok"
    \/ /\ ~(a.shader = "water" /\ a.base_texture = None)
       /\ (a.base_texture = None \/ a.base_vtf # "ok")

\* C3: load_material_fallback never returns an error, and whenever
\* load_material fails at any step it returns the descriptor with color
\* (255,0,255,255), no base texture, no bump map, no alpha-test cutoff and
\* translucent = FALSE; bsp.rs's prop_texture_to_material likewise gives the
\* magenta material without a texture when its texture fails to load.
C3_FallbackNeverFails ==
    /\ mat_op = "load_material_fallback" =>
          /\ mat_out.ok
          /\ (~mat_result.ok \/ C3_FailsAtSomeStep(mat_assets)) =>
                /\ Unwrap(mat_out.val).color = <<255, 0, 255, 255>>
                /\ Unwrap(mat_out.val).texture = None
                /\ Unwrap(mat_out.val).bump_map = None
                /\ Unwrap(mat_out.val).alpha_test = None
                /\ Unwrap(mat_out.val).translucent = FALSE
    /\ mat_op = "prop_texture_to_material" =>
          /\ mat_out.ok
          /\ ~mat_result.ok =>
                /\ Unwrap(mat_out.val).albedo = <<255, 0, 255, 255>>
                /\ Unwrap(mat_out.val).albedo_texture = None

\* C3 witness: a translucent material with a bump map and an alpha test
\* whose base texture cannot be decoded went through load_material_fallback
C3_Witness ==
    /\ mat_op = "load_material_fallback"
    /\ mat_assets.vmt = "ok"
    /\ mat_assets.base_texture # None
    /\ mat_assets.base_vtf = "undecodable"
    /\ mat_assets.translucent
    /\ mat_assets.alpha_test # None
    /\ mat_assets.bump_map # None
    /\ ~mat_result.ok
    /\ mat_out.ok

\* C18: a material with no base-texture parameter resolves, in
\* load_material, to the descriptor with color (82,180,217,128),
\* translucent = TRUE and no texture, with no texture load attempted, when
\* its shader class is water, and to a failure for every other shader class.
C18_WaterWithoutTexture ==
    (/\ mat_op = "load_material_fallback"
     /\ mat_assets.vmt = "ok"
     /\ mat_assets.base_texture = None) =>
        IF mat_assets.shader = "water"
        THEN /\ mat_result.ok
             /\ Unwrap(mat_result.val).color = <<82, 180, 217, 128>>
             /\ Unwrap(mat_result.val).translucent = TRUE
             /\ Unwrap(mat_result.val).texture = None
             /\ Unwrap(mat_result.val).bump_map = None
             /\ Unwrap(mat_result.val).alpha_test = None
             /\ mat_loads = <<>>
             /\ mat_out = mat_result
        ELSE /\ ~mat_result.ok
             /\ mat_loads = <<>>

\* C18 witness: a water material without a base texture, whose description
\* declares a bump map and whose texture files cannot be read, was resolved
C18_Witness ==
    /\ mat_op = "load_material_fallback"
    /\ mat_assets.vmt = "ok"
    /\ mat_assets.shader = "water"
    /\ mat_assets.base_texture = None
    /\ mat_assets.bump_map # None
    /\ mat_assets.base_vtf = "io_error"
    /\ mat_assets.bump_vtf = "missing"
    /\ mat_result.ok
    /\ Unwrap(mat_result.val).translucent = TRUE

\* C19: a failure to load or decode the bump-map texture never fails
\* load_material: the material is returned Ok with bump_map absent and with
\* the base texture, color, alpha-test cutoff and translucency it would
\* have if no bump map were declared.
C19_BumpMapBestEffort ==
    (/\ mat_op = "load_material_fallback"
     /\ mat_assets.bump_map # None
     /\ mat_assets.bump_vtf # "ok") =>
        LET without == LoadMaterial(mat_name, [mat_assets EXCEPT !.bump_map = None])
        IN  /\ mat_result.ok = without.ok
            /\ mat_result.ok =>
                  /\ Unwrap(mat_result.val).bump_map = None
                  /\ Unwrap(mat_result.val).texture = Unwrap(without.val).texture
                  /\ Unwrap(mat_result.val).color = Unwrap(without.val).color
                  /\ Unwrap(mat_result.val).alpha_test = Unwrap(without.val).alpha_test
                  /\ Unwrap(mat_result.val).translucent = Unwrap(without.val).translucent
            /\ (/\ mat_assets.vmt = "ok"
                /\ mat_assets.base_texture # None
                /\ mat_assets.base_vtf = "ok") => mat_result.ok

\* C19 witness: a material whose base texture decodes and whose bump map
\* does not was resolved, and the bump map was asked for
C19_Witness ==
    /\ mat_op = "load_material_fallback"
    /\ mat_assets.vmt = "ok"
    /\ mat_assets.base_texture # None
    /\ mat_assets.base_vtf = "ok"
    /\ mat_assets.bump_map # None
    /\ mat_assets.bump_vtf = "undecodable"
    /\ mat_assets.alpha_test # None
    /\ Len(mat_loads) = 2
    /\ mat_result.ok
    /\ Unwrap(mat_result.val).bump_map = None
    /\ Unwrap(mat_result.val).texture # None

-----------------------------------------------------------------------------
(* Vectors and matrices.  A Vec3 is <<x, y, z>>, a Mat4 the sequence of    *)
(* its four rows.  The arithmetic is exact, over the integers: lengths     *)
(* before map_coords are counted in hammer units and lengths after it in   *)
(* 1/381 m, in which UNIT_SCALE = 1/(1.905*100) = 2/381 is the factor 2.   *)

\* UNIT_SCALE, in 1/381 m per hammer unit
UnitScale == 2

\* map_coords of src/src/bsp.rs
MapCoords(v) == <<v[2] * UnitScale, v[3] * UnitScale, v[1] * UnitScale>>

Dot4(a, b) == a[1] * b[1] + a[2] * b[2] + a[3] * b[3] + a[4] * b[4]

Column(m, j) == <<m[1][j], m[2][j], m[3][j], m[4][j]>>

\* Mat4 * Vec4
MatVec(m, v) == [i \in 1..4 |-> Dot4(m[i], v)]

\* Mat4 * Mat4
MatMul(a, b) == [i \in 1..4 |-> [j \in 1..4 |-> Dot4(a[i], Column(b, j))]]

\* Mat4 * scalar
MatScale(m, k) == [i \in 1..4 |-> [j \in 1..4 |-> m[i][j] * k]]

\* Matrix::transpose
Transpose(m) == [i \in 1..4 |-> [j \in 1..4 |-> m[j][i]]]

\* Mat4::from_translation
FromTranslation(v) ==
    << <<1, 0, 0, v[1]>>,
       <<0, 1, 0, v[2]>>,
       <<0, 0, 1, v[3]>>,
       <<0, 0, 0, 1>> >>

\* Mat4::from(prop.rotation()), for the orientations of the model
FromRotation(r) ==
    CASE r = "yaw90" ->
            << <<0, 0, 1, 0>>,
               <<0, 1, 0, 0>>,
               <<-1, 0, 0, 0>>,
               <<0, 0, 0, 1>> >>
      [] OTHER ->
            << <<1, 0, 0, 0>>,
               <<0, 1, 0, 0>>,
               <<0, 0, 1, 0>>,
               <<0, 0, 0, 1>> >>

\* the 2x2 minor of the linear part of m without row i and column j
Minor3(m, i, j) ==
    LET rows == IF i = 1 THEN <<2, 3>> ELSE IF i = 2 THEN <<1, 3>> ELSE <<1, 2>>
        cols == IF j = 1 THEN <<2, 3>> ELSE IF j = 2 THEN <<1, 3>> ELSE <<1, 2>>
    IN  m[rows[1]][cols[1]] * m[rows[2]][cols[2]]
          - m[rows[1]][cols[2]] * m[rows[2]][cols[1]]

Sign(i, j) == IF (i + j) % 2 = 0 THEN 1 ELSE -1

\* the determinant of the linear part of m
Det3(m) ==
    m[1][1] * Minor3(m, 1, 1) - m[1][2] * Minor3(m, 1, 2) + m[1][3] * Minor3(m, 1, 3)

\* SquareMatrix::invert, for the matrices load_props builds: an affine
\* matrix (last row 0 0 0 1) whose linear part has determinant 1 or -1;
\* None for a singular matrix
Invert(m) ==
    LET det == Det3(m)
        lin == [i \in 1..3 |-> [j \in 1..3 |->
                   (Sign(i, j) * Minor3(m, j, i)) \div det]]
        t   == [i \in 1..3 |->
                   -(lin[i][1] * m[1][4] + lin[i][2] * m[2][4] + lin[i][3] * m[3][4])]
    IN  IF det = 0 THEN None
        ELSE Some(<< <<lin[1][1], lin[1][2], lin[1][3], t[1]>>,
                     <<lin[2][1], lin[2][2], lin[2][3], t[2]>>,
                     <<lin[3][1], lin[3][2], lin[3][3], t[3]>>,
                     <<0, 0, 0, 1>> >>)

\* apply_transform of src/src/bsp.rs
ApplyTransform(coord, transform) ==
    LET r == MatVec(transform, <<coord[1], coord[2], coord[3], 1>>)
    IN  <<r[1], r[2], r[3]>>

-----------------------------------------------------------------------------
(* Rigid prop models (vmdl::Model) and the files they are read from.       *)

\* str::replace: every occurrence of from, left to right, becomes to
RECURSIVE Replace(_, _, _)
Replace(s, from, to) ==
    IF s = <<>> THEN <<>>
    ELSE IF StartsWith(s, from)
    THEN to \o Replace(SubSeq(s, Len(from) + 1, Len(s)), from, to)
    ELSE <<Head(s)>> \o Replace(Tail(s), from, to)

DotMdl == <<".", "m", "d", "l">>
DotVtx == <<".", "d", "x", "9", "0", ".", "v", "t", "x">>
DotVvd == <<".", "v", "v", "d">>

\* the model files of the archive volume: a and b are whole, m has no .mdl,
\* x has a .dx90.vtx that does not parse, v has no .vvd
ModelFiles ==
    { <<c>> \o ext : c \in {"a", "b", "m", "x", "v"}, ext \in {DotMdl, DotVtx, DotVvd} }
        \ { <<"m">> \o DotMdl, <<"v">> \o DotVvd }
CorruptFiles == { <<"x">> \o DotVtx }

\* Mdl::read / Vtx::read / Vvd::read of loader.load(file)?
ReadSection(l, file) ==
    LET data == Load(l, file)
    IN  IF ~data.ok THEN data
        ELSE IF file \in CorruptFiles THEN Err("Mdl")
        ELSE Ok(file)

\* the textures, skin tables and meshes of the models that load.  A skin
\* table maps a material slot to an index into textures (both from 0).
ModelA ==
    [textures |-> << [name |-> <<"t", "a">>, search_paths |-> << <<"d", "/">> >>],
                     [name |-> <<"t", "b">>, search_paths |-> << <<"d", "/">> >>] >>,
     skins    |-> << <<0, 1>>, <<1, 0>> >>,
     meshes   |-> << [material_index |-> 0,
                      vertices |-> << [position |-> <<1, 2, 3>>,
                                       normal |-> <<0, 0, 1>>,
                                       texture_coordinates |-> <<0, 1>>] >>,
                      tangents |-> << <<1, 0, 0, 1>> >>],
                     [material_index |-> 1,
                      vertices |-> << [position |-> <<4, 5, 6>>,
                                       normal |-> <<0, 1, 0>>,
                                       texture_coordinates |-> <<1, 1>>],
                                      [position |-> <<7, 8, 9>>,
                                       normal |-> <<1, 0, 0>>,
                                       texture_coordinates |-> <<1, 0>>] >>,
                      tangents |-> << <<0, 1, 0, 1>>, <<0, 0, 1, -1>> >>] >>]

ModelB ==
    [textures |-> << [name |-> <<"t", "a">>, search_paths |-> << <<"e", "/">> >>],
                     [name |-> <<"t", "c">>, search_paths |-> << <<"e", "/">> >>] >>,
     skins    |-> << <<1>>, <<0>> >>,
     meshes   |-> << [material_index |-> 0,
                      vertices |-> << [position |-> <<2, 0, 1>>,
                                       normal |-> <<0, 0, -1>>,
                                       texture_coordinates |-> <<0, 0>>] >>,
                      tangents |-> << <<1, 0, 0, -1>> >>] >>]

\* vmdl::Model::from_parts
ModelFromParts(mdl, vtx, vvd) ==
    IF mdl = <<"a">> \o DotMdl THEN ModelA ELSE ModelB

\* load_prop (src/src/prop.rs; the load_prop of src/src/bsp.rs is the same)
LoadProp(l, name) ==
    LET mdl == ReadSection(l, name)
        vtx == ReadSection(l, Replace(name, DotMdl, DotVtx))
        vvd == ReadSection(l, Replace(name, DotMdl, DotVvd))
    IN  IF ~mdl.ok THEN mdl
        ELSE IF ~vtx.ok THEN vtx
        ELSE IF ~vvd.ok THEN vvd
        ELSE Ok(ModelFromParts(Unwrap(mdl.val), Unwrap(vtx.val), Unwrap(vvd.val)))

\* `prop.skin as usize`.  The cast of a negative i32 wraps to the top of
\* the usize range; TLC's integers being 32 bits wide, the wrap is modelled
\* modulo 2^31, which like 2^64 lies beyond the length of any skin table.
AsUsize(i) == IF i < 0 THEN (2147483647 + i) + 1 ELSE i

\* Iterator::nth
Nth(seq, n) == IF n < Len(seq) THEN Some(seq[n + 1]) ELSE None

\* a mutant of SelectSkin: an invalid index falls back to the last table
SelectSkin_LastTable(model, skin) ==
    LET found == Nth(model.skins, AsUsize(skin))
    IN  IF IsSome(found) THEN Unwrap(found) ELSE model.skins[Len(model.skins)]

\* the skin table prop_to_meshes uses: the one at the placement's skin
\* index, and the first one for an invalid index
SelectSkin(model, skin) ==
    LET found == Nth(model.skins, AsUsize(skin))
    IN  IF IsSome(found) THEN Unwrap(found) ELSE model.skins[1]

\* SkinTable::texture: the name of the texture a skin table gives a slot
SkinTexture(model, table, slot) ==
    IF slot < Len(table) /\ table[slot + 1] < Len(model.textures)
    THEN Some(model.textures[table[slot + 1] + 1].name)
    ELSE None

\* the placements a level can hold
Placements ==
    { [model |-> <<"a">> \o DotMdl, origin |-> <<10, 0, 0>>, scale |-> <<1, 1, 1>>,
        rotation |-> "none", skin |-> 0],
      [model |-> <<"a">> \o DotMdl, origin |-> <<0, 10, 0>>, scale |-> <<2, 1, 1>>,
        rotation |-> "yaw90", skin |-> 1],
      [model |-> <<"a">> \o DotMdl, origin |-> <<0, 10, 0>>, scale |-> <<1, 1, 1>>,
        rotation |-> "yaw90", skin |-> 2],
      [model |-> <<"b">> \o DotMdl, origin |-> <<0, 0, 10>>, scale |-> <<1, 1, 1>>,
        rotation |-> "none", skin |-> 1],
      [model |-> <<"b">> \o DotMdl, origin |-> <<0, 0, 10>>, scale |-> <<1, 1, 1>>,
        rotation |-> "none", skin |-> -1],
      [model |-> <<"m">> \o DotMdl, origin |-> <<0, 0, 0>>, scale |-> <<1, 1, 1>>,
        rotation |-> "none", skin |-> 0],
      [model |-> <<"x">> \o DotMdl, origin |-> <<0, 0, 0>>, scale |-> <<1, 1, 1>>,
        rotation |-> "none", skin |-> 0],
      [model |-> <<"v">> \o DotMdl, origin |-> <<0, 0, 0>>, scale |-> <<1, 1, 1>>,
        rotation |-> "none", skin |-> 0] }

-----------------------------------------------------------------------------
(* The prop placement resolver: load_props and prop_to_meshes, as          *)
(* src/src/prop.rs has them and as src/src/bsp.rs has them.                *)

\* a panic (unwrap or expect on None) ends the load without a result
Panic(what) == [ok |-> FALSE, val |-> <<>>, err |-> "panic"]

\* the transform load_props computes for a placement
PlacementTransform(prop) ==
    MatMul(FromTranslation(MapCoords(prop.origin)), FromRotation(prop.rotation))

\* the first stage of prop.rs's load_props: filter_map over load_prop, then
\* map to PropData; a placement whose model fails to load is left out
RECURSIVE PropData(_, _)
PropData(l, props) ==
    IF props = <<>> THEN <<>>
    ELSE LET prop  == Head(props)
             model == LoadProp(l, prop.model)
         IN  IF model.ok
             THEN << [name |-> prop.model,
                      model |-> Unwrap(model.val),
                      transform |-> PlacementTransform(prop),
                      skin |-> prop.skin] >> \o PropData(l, Tail(props))
             ELSE PropData(l, Tail(props))

\* the first stage of bsp.rs's load_props: map over load_prop(..)?, then
\* collect::<Result<_, _>>()?; the first placement that fails ends the stage
RECURSIVE ModelData(_, _)
ModelData(l, props) ==
    IF props = <<>> THEN Ok(<<>>)
    ELSE LET prop  == Head(props)
             model == LoadProp(l, prop.model)
             rest  == ModelData(l, Tail(props))
         IN  IF ~model.ok THEN model
             ELSE IF ~rest.ok THEN rest
             ELSE Ok(<< [model |-> Unwrap(model.val),
                         transform |-> PlacementTransform(prop),
                         skin |-> prop.skin] >> \o Unwrap(rest.val))

\* props.iter().flat_map(|prop| prop.model.textures())
RECURSIVE FlatTextures(_)
FlatTextures(props) ==
    IF props = <<>> THEN <<>>
    ELSE Head(props).model.textures \o FlatTextures(Tail(props))

TextureNameSet(texs) == { texs[i].name : i \in 1..Len(texs) }

\* collect::<HashMap<_, _>>(): a later entry replaces an earlier one of the
\* same name
LastNamed(texs, name) ==
    texs[CHOOSE i \in 1..Len(texs) :
            /\ texs[i].name = name
            /\ \A j \in (i + 1)..Len(texs) : texs[j].name # name]

\* the orders in which a HashMap of these keys can be iterated
Orders(keys) ==
    { f \in [1..Cardinality(keys) -> keys] :
        \A i, j \in 1..Cardinality(keys) : f[i] = f[j] => i = j }

\* HashMap::into_values / HashMap::values, iterated in the order given
HashMapValues(texs, order) == [i \in 1..Len(order) |-> LastNamed(texs, order[i])]

\* a mutant of MaterialIndex: the position counted from 1
MaterialIndex_FromOne(textures, texture) ==
    IF \E i \in 1..Len(textures) : textures[i].name = texture
    THEN Some(CHOOSE i \in 1..Len(textures) :
                 /\ textures[i].name = texture
                 /\ \A j \in 1..(i - 1) : textures[j].name # texture)
    ELSE None

\* material_index of prop.rs's prop_to_meshes: the first position (from 0)
\* of textures whose name is the mesh's texture
MaterialIndex(textures, texture) ==
    IF \E i \in 1..Len(textures) : textures[i].name = texture
    THEN Some((CHOOSE i \in 1..Len(textures) :
                  /\ textures[i].name = texture
                  /\ \A j \in 1..(i - 1) : textures[j].name # texture) - 1)
    ELSE None

\* a mutant of PropPrimitive: the UVs are permuted as map_coords permutes axes
PropPrimitive_ConvertsUVs(prop, skin, mesh, textures) ==
    LET texture == Unwrap(SkinTexture(prop.model, skin, mesh.material_index))
    IN  [name |-> "",
         transformation |-> prop.transform,
         positions |-> [i \in 1..Len(mesh.vertices) |->
                           MapCoords(mesh.vertices[i].position)],
         normals |-> Some([i \in 1..Len(mesh.vertices) |->
                              MapCoords(mesh.vertices[i].normal)]),
         uvs |-> Some([i \in 1..Len(mesh.vertices) |->
                          <<mesh.vertices[i].texture_coordinates[2],
                            mesh.vertices[i].texture_coordinates[1]>>]),
         tangents |-> Some(mesh.tangents),
         material_index |-> MaterialIndex(textures, texture)]

\* the primitive prop.rs's prop_to_meshes emits for one mesh
PropPrimitive(prop, skin, mesh, textures) ==
    LET texture == Unwrap(SkinTexture(prop.model, skin, mesh.material_index))
    IN  [name |-> "",
         transformation |-> prop.transform,
         positions |-> [i \in 1..Len(mesh.vertices) |->
                           MapCoords(mesh.vertices[i].position)],
         normals |-> Some([i \in 1..Len(mesh.vertices) |->
                              MapCoords(mesh.vertices[i].normal)]),
         uvs |-> Some([i \in 1..Len(mesh.vertices) |->
                          mesh.vertices[i].texture_coordinates]),
         tangents |-> Some(mesh.tangents),
         material_index |-> MaterialIndex(textures, texture)]

\* the mesh bsp.rs's prop_to_meshes emits for one mesh
BspPropMesh(prop, skin, mesh) ==
    LET texture == Unwrap(SkinTexture(prop.model, skin, mesh.material_index))
        normal_transform ==
            MatScale(Transpose(Unwrap(Invert(prop.transform))), -1)
    IN  [positions |-> [i \in 1..Len(mesh.vertices) |->
                           ApplyTransform(MapCoords(mesh.vertices[i].position),
                                          prop.transform)],
         normals |-> Some([i \in 1..Len(mesh.vertices) |->
                              ApplyTransform(MapCoords(mesh.vertices[i].normal),
                                             normal_transform)]),
         uvs |-> Some([i \in 1..Len(mesh.vertices) |->
                          mesh.vertices[i].texture_coordinates]),
         material_name |-> Some(texture)]

\* whether prop_to_meshes panics on this placement: no skin table at all,
\* or a slot the skin table has no texture for ("texture out of bounds")
PropPanics(prop) ==
    \/ prop.model.skins = <<>>
    \/ \E i \in 1..Len(prop.model.meshes) :
          SkinTexture(prop.model, SelectSkin(prop.model, prop.skin),
                      prop.model.meshes[i].material_index) = None

\* prop_to_meshes of src/src/prop.rs: one primitive per mesh, in mesh order
PropToMeshes(prop, textures) ==
    LET skin == SelectSkin(prop.model, prop.skin)
    IN  [i \in 1..Len(prop.model.meshes) |->
            PropPrimitive(prop, skin, prop.model.meshes[i], textures)]

\* prop_to_meshes of src/src/bsp.rs
BspPropToMeshes(prop) ==
    LET skin == SelectSkin(prop.model, prop.skin)
    IN  [i \in 1..Len(prop.model.meshes) |->
            BspPropMesh(prop, skin, prop.model.meshes[i])]

\* what the loader holds for the material of a prop texture: ta resolves,
\* tb has no description, tc has a description without a base texture
TextureAssets(name) ==
    [vmt |-> IF name = <<"t", "b">> THEN "missing" ELSE "ok",
     shader |-> "vertexlitgeneric",
     base_texture |-> IF name = <<"t", "c">> THEN None ELSE Some(name),
     translucent |-> FALSE,
     surface_prop |-> None,
     alpha_test |-> None,
     base_vtf |-> IF name = <<"t", "a">> THEN "ok" ELSE "missing",
     bump_map |-> None,
     bump_vtf |-> "missing"]

\* prop_texture_to_material of src/src/prop.rs.  `of` is not a field of the
\* material: it keeps the texture the material was resolved for.
PropMaterial(texture) ==
    [of |-> texture,
     material |-> Unwrap(LoadMaterialFallback(texture.name,
                                              TextureAssets(texture.name)).val)]

RECURSIVE FlatPrimitives(_, _)
FlatPrimitives(props, textures) ==
    IF props = <<>> THEN <<>>
    ELSE PropToMeshes(Head(props), textures) \o FlatPrimitives(Tail(props), textures)

RECURSIVE BspFlatMeshes(_)
BspFlatMeshes(props) ==
    IF props = <<>> THEN <<>>
    ELSE BspPropToMeshes(Head(props)) \o BspFlatMeshes(Tail(props))

\* load_props of src/src/prop.rs; order is the iteration order of its HashMap
LoadProps(l, placements, order) ==
    LET props    == PropData(l, placements)
        textures == HashMapValues(FlatTextures(props), order)
    IN  IF \E i \in 1..Len(props) : PropPanics(props[i]) THEN Panic("prop_to_meshes")
        ELSE Ok([name |-> "props",
                 geometries |-> FlatPrimitives(props, textures),
                 materials |-> [i \in 1..Len(textures) |-> PropMaterial(textures[i])]])

\* load_props of src/src/bsp.rs; order is the iteration order of its HashMap
BspLoadProps(l, placements, order) ==
    LET data == ModelData(l, placements)
    IN  IF ~data.ok THEN data
        ELSE LET props    == Unwrap(data.val)
                 textures == HashMapValues(FlatTextures(props), order)
             IN  IF \E i \in 1..Len(props) : PropPanics(props[i])
                 THEN Panic("prop_to_meshes")
                 ELSE Ok([geometries |-> BspFlatMeshes(props),
                          materials |-> [i \in 1..Len(textures) |->
                              Unwrap(PropTextureToMaterial(textures[i].name,
                                         TextureAssets(textures[i].name)).val)]])

\* the texture names load_props collects from the placements that load
LoadedTextureNames(l, placements) ==
    TextureNameSet(FlatTextures(PropData(l, placements)))

-----------------------------------------------------------------------------
(* The world geometry extractor and the pipeline driver (src/src/bsp.rs).  *)

\* a face of a level model: Face::texture().name(), Face::is_visible(),
\* Face::vertex_positions()
FaceKinds == [texture : { <<"A">>, <<"B">> }, visible : BOOLEAN]

\* the vertices of the i-th face of a model: no two faces share a vertex
FaceVertices(i) == << <<i, 0, 0>>, <<i, 1, 0>>, <<i, 0, 1>> >>

\* the faces of a model, from the kinds of its faces
Faces(kinds) ==
    [i \in 1..Len(kinds) |->
        [texture |-> kinds[i].texture, visible |-> kinds[i].visible,
         vertices |-> FaceVertices(i)]]

\* TextureInfo::u / TextureInfo::v of the vbsp crate: a texture coordinate
\* is kept as the texture and the position it is computed from
TexU(texture, pos) == <<"u", texture, pos>>
TexV(texture, pos) == <<"v", texture, pos>>

\* CpuMesh::compute_normals of three_d: the normals are kept as the
\* positions they are computed from
ComputeNormals(positions) == Some([computed_from |-> positions])

\* face_to_mesh
FaceToMesh(face) ==
    LET positions == [i \in 1..Len(face.vertices) |-> MapCoords(face.vertices[i])]
    IN  [positions |-> positions,
         uvs |-> Some([i \in 1..Len(face.vertices) |->
                         [x |-> TexU(face.texture, face.vertices[i]),
                          y |-> TexV(face.texture, face.vertices[i])]]),
         material_name |-> Some(face.texture),
         normals |-> ComputeNormals(positions)]

\* a mutant of VisibleFaces: every face is kept
VisibleFaces_All(faces) == faces

\* model.faces().filter(|face| face.is_visible())
RECURSIVE VisibleFaces(_)
VisibleFaces(faces) ==
    IF faces = <<>> THEN <<>>
    ELSE IF Head(faces).visible
    THEN <<Head(faces)>> \o VisibleFaces(Tail(faces))
    ELSE VisibleFaces(Tail(faces))

\* faces_by_texture[name]: the faces pushed under one texture name
RECURSIVE FacesByTexture(_, _)
FacesByTexture(faces, name) ==
    IF faces = <<>> THEN <<>>
    ELSE IF Head(faces).texture = name
    THEN <<Head(faces)>> \o FacesByTexture(Tail(faces), name)
    ELSE FacesByTexture(Tail(faces), name)

\* the keys of faces_by_texture
FaceTextureNames(faces) ==
    { VisibleFaces(faces)[i].texture : i \in 1..Len(VisibleFaces(faces)) }

\* the loop of model_to_model that extends the first face's mesh by the
\* positions and uvs of the other faces of the group
RECURSIVE ExtendMesh(_, _)
ExtendMesh(mesh, faces) ==
    IF faces = <<>> THEN mesh
    ELSE LET face_mesh == FaceToMesh(Head(faces))
         IN  ExtendMesh([mesh EXCEPT
                           !.positions = @ \o face_mesh.positions,
                           !.uvs = Some(Unwrap(@) \o Unwrap(face_mesh.uvs))],
                        Tail(faces))

\* the geometry model_to_model builds for one texture group
GroupMesh(faces) ==
    LET mesh == ExtendMesh(FaceToMesh(Head(faces)), Tail(faces))
    IN  [mesh EXCEPT !.normals = ComputeNormals(mesh.positions)]

\* the textures of the world: a.vtf decodes, b.vtf is in no archive
WorldTextureFile(name) == MaterialsSlash \o ToAsciiLowercase(name) \o DotVtf

\* the material model_to_model builds for one texture group
WorldMaterial(l, name) ==
    LET vtf_data == Load(l, WorldTextureFile(name))
        texture_data ==
            IF vtf_data.ok /\ Unwrap(vtf_data.val) \notin CorruptFiles
            THEN Some([name |-> name, image |-> [of |-> Unwrap(vtf_data.val)]])
            ELSE None
    IN  [albedo |-> IF IsSome(texture_data) THEN <<255, 255, 255, 255>>
                    ELSE <<255, 0, 255, 255>>,
         albedo_texture |-> texture_data,
         name |-> name]

\* model_to_model; order is the iteration order of faces_by_texture
ModelToModel(l, faces, order) ==
    LET visible == VisibleFaces(faces)
    IN  [geometries |-> [i \in 1..Len(order) |->
                            GroupMesh(FacesByTexture(visible, order[i]))],
         materials |-> [i \in 1..Len(order) |-> WorldMaterial(l, order[i])]]

\* the loader load_world leaves: the level's pack is set once the level is read
LoadWorldLoader(l, lvl) == IF lvl.readable THEN SetPack(l, lvl.pack) ELSE l

\* a mutant of LoadWorld: a level without models gives an empty world
LoadWorld_EmptyWorld(l, lvl, order) ==
    IF ~lvl.readable THEN Err("Bsp")
    ELSE IF lvl.models = <<>>
    THEN Ok(ModelToModel(LoadWorldLoader(l, lvl), <<>>, <<>>))
    ELSE Ok(ModelToModel(LoadWorldLoader(l, lvl), Head(lvl.models), order))

\* load_world: the world model of a level that reads and has a first model
LoadWorld(l, lvl, order) ==
    IF ~lvl.readable THEN Err("Bsp")
    ELSE IF lvl.models = <<>> THEN Err("Other: No world model")
    ELSE Ok(ModelToModel(LoadWorldLoader(l, lvl), Head(lvl.models), order))

\* load_map
LoadMap(l, lvl, world_order, props_order) ==
    LET world == LoadWorld(l, lvl, world_order)
        props == BspLoadProps(LoadWorldLoader(l, lvl), lvl.static_props, props_order)
    IN  IF ~world.ok THEN world
        ELSE IF ~props.ok THEN props
        ELSE Ok(<<Unwrap(world.val), Unwrap(props.val)>>)

-----------------------------------------------------------------------------
(* The pipeline state machine: a level is handed to load_map, or its       *)
(* placements to one of the two load_props.                                *)

\* the sequences of at most n elements of a set
SeqsUpTo(S, n) == UNION { [1..k -> S] : k \in 0..n }

\* the loader of the pipeline: one archive volume holding the model files
PipelineLoader ==
    [tf_dir |-> {}, download |-> {}, vpks |-> << ModelFiles >>, pack |-> None, unreadable |-> {}]

\* the face lists of the level models
WorldKinds ==
    << [texture |-> <<"A">>, visible |-> TRUE],
       [texture |-> <<"B">>, visible |-> TRUE],
       [texture |-> <<"A">>, visible |-> FALSE] >>
BrushKinds == << [texture |-> <<"B">>, visible |-> TRUE] >>

\* the levels of the pipeline runs; the pack of a level holds a.vtf
Levels ==
    [readable : BOOLEAN,
     models : { <<>>, << Faces(WorldKinds) >>, << Faces(BrushKinds), Faces(WorldKinds) >> },
     static_props : SeqsUpTo(Placements, MaxProps),
     pack : { {WorldTextureFile(<<"A">>)} }]

InitPipeline ==
    /\ loader = PipelineLoader
    /\ level \in Levels
    /\ pipe_op = ""
    /\ pipe_order = [world |-> <<>>, props |-> <<>>]
    /\ pipe_out = Err("")

\* the orders in which load_map can iterate faces_by_texture
WorldOrders(lvl) ==
    IF lvl.readable /\ lvl.models # <<>>
    THEN Orders(FaceTextureNames(Head(lvl.models)))
    ELSE { <<>> }

\* the orders in which bsp.rs's load_props can iterate its textures
BspPropsOrders(l, placements) ==
    IF ModelData(l, placements).ok
    THEN Orders(LoadedTextureNames(l, placements))
    ELSE { <<>> }

\* load_map(data, loader)
DoLoadMap ==
    /\ pipe_op = ""
    /\ \E world_order \in WorldOrders(level) :
       \E props_order \in
             IF LoadWorld(loader, level, world_order).ok
             THEN BspPropsOrders(LoadWorldLoader(loader, level), level.static_props)
             ELSE { <<>> } :
          /\ pipe_order' = [world |-> world_order, props |-> props_order]
          /\ pipe_out' = LoadMap(loader, level, world_order, props_order)
    /\ pipe_op' = "load_map"
    /\ loader' = LoadWorldLoader(loader, level)
    /\ UNCHANGED level
    /\ UNCHANGED notPipeline

\* load_props(loader, props) of src/src/prop.rs
DoLoadProps ==
    /\ pipe_op = ""
    /\ \E order \in Orders(LoadedTextureNames(loader, level.static_props)) :
          /\ pipe_order' = [world |-> <<>>, props |-> order]
          /\ pipe_out' = LoadProps(loader, level.static_props, order)
    /\ pipe_op' = "load_props"
    /\ UNCHANGED <<loader, level>>
    /\ UNCHANGED notPipeline

\* load_props(loader, props) of src/src/bsp.rs
DoBspLoadProps ==
    /\ pipe_op = ""
    /\ \E order \in BspPropsOrders(loader, level.static_props) :
          /\ pipe_order' = [world |-> <<>>, props |-> order]
          /\ pipe_out' = BspLoadProps(loader, level.static_props, order)
    /\ pipe_op' = "bsp_load_props"
    /\ UNCHANGED <<loader, level>>
    /\ UNCHANGED notPipeline

\* the models handed to model_to_model on its own: every face list of at
\* most MaxFaces faces
InitWorld ==
    /\ loader = SetPack(PipelineLoader, {WorldTextureFile(<<"A">>)})
    /\ level \in [readable : {TRUE},
                  models : { << Faces(kinds) >> : kinds \in SeqsUpTo(FaceKinds, MaxFaces) },
                  static_props : { <<>> },
                  pack : { {WorldTextureFile(<<"A">>)} }]
    /\ pipe_op = ""
    /\ pipe_order = [world |-> <<>>, props |-> <<>>]
    /\ pipe_out = Err("")

\* model_to_model(model, loader)
DoModelToModel ==
    /\ pipe_op = ""
    /\ \E order \in Orders(FaceTextureNames(Head(level.models))) :
          /\ pipe_order' = [world |-> order, props |-> <<>>]
          /\ pipe_out' = Ok(ModelToModel(loader, Head(level.models), order))
    /\ pipe_op' = "model_to_model"
    /\ UNCHANGED <<loader, level>>
    /\ UNCHANGED notPipeline

-----------------------------------------------------------------------------
(* Claims about the pipeline.                                              *)

\* the loader the function that ran read the models from
C4_Loader == IF pipe_op = "load_map" THEN LoadWorldLoader(PipelineLoader, level)
             ELSE PipelineLoader

\* the placements of the level whose three sections load and parse
C4_Loads(p) == LoadProp(C4_Loader, p.model).ok

\* the transforms of the placements that load, each once per mesh of its
\* model, in the order of the placements
RECURSIVE C4_ExpectedTransforms(_)
C4_ExpectedTransforms(placements) ==
    IF placements = <<>> THEN <<>>
    ELSE LET p == Head(placements)
         IN  (IF C4_Loads(p)
              THEN [i \in 1..Len(Unwrap(LoadProp(C4_Loader, p.model).val).meshes) |->
                       PlacementTransform(p)]
              ELSE <<>>) \o C4_ExpectedTransforms(Tail(placements))

\* C4, for the load_props of src/src/prop.rs alone: it returns Ok with the
\* primitives of exactly the placements whose models loaded.
C4_PropRsSkipsOnlyFailing ==
    pipe_op = "load_props" =>
       /\ pipe_out.ok
       /\ LET geometries == Unwrap(pipe_out.val).geometries
              expected   == C4_ExpectedTransforms(level.static_props)
          IN  /\ Len(geometries) = Len(expected)
              /\ \A i \in 1..Len(expected) :
                    geometries[i].transformation = expected[i]

\* C4: in load_props (that of prop.rs and that of bsp.rs) a placement whose
\* model fails to load is skipped on its own: load_props returns Ok and the
\* result holds the primitives of exactly the placements whose models loaded.
C4_SkipsOnlyFailing ==
    /\ C4_PropRsSkipsOnlyFailing
    /\ pipe_op = "bsp_load_props" =>
          /\ pipe_out.ok
          /\ Len(Unwrap(pipe_out.val).geometries)
                = Len(C4_ExpectedTransforms(level.static_props))

\* C5: load_map returns an error only when the level container cannot be
\* read or the level has no primary model.
C5_OnlyFatalErrors ==
    (pipe_op = "load_map" /\ ~pipe_out.ok) =>
        (~level.readable \/ level.models = <<>>)

\* C6: when the level reads but holds no model, load_world fails with
\* "No world model" and load_map hands that error on: neither a world nor a
\* props model is produced.
C6_NoWorldModel ==
    (pipe_op = "load_map" /\ level.readable /\ level.models = <<>>) =>
        /\ LoadWorld(PipelineLoader, level, <<>>) = Err("Other: No world model")
        /\ pipe_out = Err("Other: No world model")
        /\ pipe_out.val = <<>>

\* C6 witness: load_map ran on a readable level without models whose
\* placements all load
C6_Witness ==
    /\ pipe_op = "load_map"
    /\ level.readable
    /\ level.models = <<>>
    /\ Len(level.static_props) = 2
    /\ \A i \in 1..Len(level.static_props) : C4_Loads(level.static_props[i])
    /\ ~pipe_out.ok

\* whether the skin index of a placement selects a skin table of its model
C7_SkinInRange(p) ==
    /\ p.skin >= 0
    /\ p.skin < Len(Unwrap(LoadProp(C4_Loader, p.model).val).skins)

\* the placements, with skin 0 in place of every skin index out of range
C7_WithValidSkins(placements) ==
    [i \in 1..Len(placements) |->
        IF C4_Loads(placements[i]) /\ ~C7_SkinInRange(placements[i])
        THEN [placements[i] EXCEPT !.skin = 0]
        ELSE placements[i]]

\* C7: a placement whose skin index is out of range for its model (at or
\* beyond the number of skin tables, or negative) is rendered as with skin
\* table 0, and all the primitives of its model are emitted: the result is
\* the one the same placements give with skin 0 in place of each such
\* index, and it is no failure when every model loads.
C7_SkinFallback ==
    LET valid == C7_WithValidSkins(level.static_props)
        all_load == \A i \in 1..Len(valid) : C4_Loads(valid[i])
    IN  /\ pipe_op = "load_props" =>
              /\ pipe_out = LoadProps(loader, valid, pipe_order.props)
              /\ pipe_out.ok
              /\ Len(Unwrap(pipe_out.val).geometries)
                    = Len(C4_ExpectedTransforms(level.static_props))
        /\ pipe_op = "bsp_load_props" =>
              /\ pipe_out = BspLoadProps(loader, valid, pipe_order.props)
              /\ all_load =>
                    /\ pipe_out.ok
                    /\ Len(Unwrap(pipe_out.val).geometries)
                          = Len(C4_ExpectedTransforms(level.static_props))

\* C7 witness: load_props ran on a placement with a skin index beyond the
\* skin tables of its model and one with a negative skin index
C7_Witness ==
    /\ pipe_op = "load_props"
    /\ Len(level.static_props) = 2
    /\ \A i \in 1..2 : C4_Loads(level.static_props[i])
    /\ level.static_props[1].skin
          >= Len(Unwrap(LoadProp(C4_Loader, level.static_props[1].model).val).skins)
    /\ level.static_props[2].skin < 0
    /\ pipe_out.ok
    /\ Len(Unwrap(pipe_out.val).geometries) = 3

\* the texture names the selected skin tables give for the meshes of the
\* placements that load, mesh by mesh in the order of the placements
RECURSIVE C9_ExpectedTextures(_)
C9_ExpectedTextures(placements) ==
    IF placements = <<>> THEN <<>>
    ELSE LET p == Head(placements)
             model == Unwrap(LoadProp(C4_Loader, p.model).val)
         IN  (IF C4_Loads(p)
              THEN [i \in 1..Len(model.meshes) |->
                       Unwrap(SkinTexture(model, SelectSkin(model, p.skin),
                                          model.meshes[i].material_index))]
              ELSE <<>>) \o C9_ExpectedTextures(Tail(placements))

\* the primitives refer by name to exactly one of the materials each
C9_ByName(model, expected) ==
    /\ expected # <<>> => Len(model.geometries) = Len(expected)
    /\ \A i \in 1..Len(model.geometries) :
          /\ IsSome(model.geometries[i].material_name)
          /\ expected # <<>> =>
                Unwrap(model.geometries[i].material_name) = expected[i]
          /\ Cardinality({ j \in 1..Len(model.materials) :
                             model.materials[j].name
                                = Unwrap(model.geometries[i].material_name) }) = 1

\* C9: every primitive of a returned world or props model has a material
\* reference that resolves to exactly one entry of the material list
\* returned with it: a prop primitive's material index is present and less
\* than the length of the list, and the entry it selects is the material
\* resolved for the texture name the selected skin table gives for its mesh.
C9_MaterialReferences ==
    /\ (pipe_op = "load_props" /\ pipe_out.ok) =>
          LET model    == Unwrap(pipe_out.val)
              expected == C9_ExpectedTextures(level.static_props)
          IN  /\ Len(model.geometries) = Len(expected)
              /\ \A i \in 1..Len(expected) :
                    /\ IsSome(model.geometries[i].material_index)
                    /\ Unwrap(model.geometries[i].material_index) >= 0
                    /\ Unwrap(model.geometries[i].material_index) < Len(model.materials)
                    /\ model.materials[
                          Unwrap(model.geometries[i].material_index) + 1].of.name
                          = expected[i]
              /\ \A j, k \in 1..Len(model.materials) :
                    model.materials[j].of.name = model.materials[k].of.name => j = k
    /\ (pipe_op = "bsp_load_props" /\ pipe_out.ok) =>
          C9_ByName(Unwrap(pipe_out.val), C9_ExpectedTextures(level.static_props))
    /\ (pipe_op = "load_map" /\ pipe_out.ok) =>
          /\ C9_ByName(Unwrap(pipe_out.val)[1], <<>>)
          /\ C9_ByName(Unwrap(pipe_out.val)[2], C9_ExpectedTextures(level.static_props))

\* C9 witness: load_props ran on two models that share a texture name and
\* returned three materials
C9_Witness ==
    /\ pipe_op = "load_props"
    /\ pipe_out.ok
    /\ Len(level.static_props) = 2
    /\ level.static_props[1].model # level.static_props[2].model
    /\ Len(Unwrap(pipe_out.val).materials) = 3
    /\ Len(Unwrap(pipe_out.val).geometries) = 3
    /\ Unwrap(pipe_out.val).geometries[3].material_index
          = Unwrap(pipe_out.val).geometries[1].material_index

\* the converted normals of the meshes of the placements that load, each
\* with the transform of its placement, mesh by mesh
RECURSIVE C14_MeshNormals(_)
C14_MeshNormals(placements) ==
    IF placements = <<>> THEN <<>>
    ELSE LET p == Head(placements)
             model == Unwrap(LoadProp(C4_Loader, p.model).val)
         IN  (IF C4_Loads(p)
              THEN [i \in 1..Len(model.meshes) |->
                       [transform |-> PlacementTransform(p),
                        normals |-> [j \in 1..Len(model.meshes[i].vertices) |->
                            MapCoords(model.meshes[i].vertices[j].normal)]]]
              ELSE <<>>) \o C14_MeshNormals(Tail(placements))

\* n is the normal m corrected with the negated inverse-transpose of t:
\* the transpose of the linear part of t takes -n back to m
C14_IsCorrected(n, m, t) ==
    \A c \in 1..3 :
        t[1][c] * (-n[1]) + t[2][c] * (-n[2]) + t[3][c] * (-n[3]) = m[c]

\* the normals of the geometries are the corrected normals of the meshes
C14_Corrected(geometries, placements) ==
    LET expected == C14_MeshNormals(placements)
    IN  /\ Len(geometries) = Len(expected)
        /\ \A i \in 1..Len(expected) :
              /\ IsSome(geometries[i].normals)
              /\ Len(Unwrap(geometries[i].normals)) = Len(expected[i].normals)
              /\ \A j \in 1..Len(expected[i].normals) :
                    C14_IsCorrected(Unwrap(geometries[i].normals)[j],
                                    expected[i].normals[j], expected[i].transform)

\* C14 for the prop_to_meshes of src/src/bsp.rs alone, which bakes the
\* transform into the vertices
C14_BspNormalsCorrected ==
    /\ (pipe_op = "bsp_load_props" /\ pipe_out.ok) =>
          C14_Corrected(Unwrap(pipe_out.val).geometries, level.static_props)
    /\ (pipe_op = "load_map" /\ pipe_out.ok) =>
          C14_Corrected(Unwrap(pipe_out.val)[2].geometries, level.static_props)

\* C14: the normals of every emitted prop primitive are corrected with the
\* negated inverse-transpose of the placement's transform, whether the
\* transform is baked into the vertices (bsp.rs) or kept on the primitive
\* (prop.rs).
C14_NormalsCorrected ==
    /\ C14_BspNormalsCorrected
    /\ (pipe_op = "load_props" /\ pipe_out.ok) =>
          C14_Corrected(Unwrap(pipe_out.val).geometries, level.static_props)

\* Mat4::from_nonuniform_scale: the scale of a placement as a transform
C21_FromScale(v) ==
    << <<v[1], 0, 0, 0>>,
       <<0, v[2], 0, 0>>,
       <<0, 0, v[3], 0>>,
       <<0, 0, 0, 1>> >>

\* translation(map_coords(origin)) x rotation(orientation) x scale(scale factor)
C21_ScaledTransform(p) ==
    MatMul(MatMul(FromTranslation(MapCoords(p.origin)), FromRotation(p.rotation)),
           C21_FromScale(p.scale))

\* the scaled transforms of the placements that load, once per mesh
RECURSIVE C21_ExpectedTransforms(_)
C21_ExpectedTransforms(placements) ==
    IF placements = <<>> THEN <<>>
    ELSE LET p == Head(placements)
         IN  (IF C4_Loads(p)
              THEN [i \in 1..Len(Unwrap(LoadProp(C4_Loader, p.model).val).meshes) |->
                       C21_ScaledTransform(p)]
              ELSE <<>>) \o C21_ExpectedTransforms(Tail(placements))

\* C21: the rigid transform load_props computes for every placement, and
\* attaches to its primitives, is translation(map_coords(origin)) x
\* rotation(orientation) x scale(scale factor).
C21_TransformHasScale ==
    (pipe_op = "load_props" /\ pipe_out.ok) =>
       LET geometries == Unwrap(pipe_out.val).geometries
           expected   == C21_ExpectedTransforms(level.static_props)
       IN  /\ Len(geometries) = Len(expected)
           /\ \A i \in 1..Len(expected) :
                 geometries[i].transformation = expected[i]

\* the meshes of the placements that load, each with the transform of its
\* placement, in the order of the placements and of the meshes
RECURSIVE C22_ExpectedMeshes(_)
C22_ExpectedMeshes(placements) ==
    IF placements = <<>> THEN <<>>
    ELSE LET p == Head(placements)
             model == Unwrap(LoadProp(C4_Loader, p.model).val)
         IN  (IF C4_Loads(p)
              THEN [i \in 1..Len(model.meshes) |->
                       [transform |-> PlacementTransform(p), mesh |-> model.meshes[i]]]
              ELSE <<>>) \o C22_ExpectedMeshes(Tail(placements))

\* C22: for every placement that loads, prop_to_meshes emits exactly one
\* primitive per mesh of the model, in mesh order, each with the transform
\* of the placement, one normal and one UV per vertex of the mesh, and the
\* UVs and tangents of the mesh as they are in the model.
C22_OnePrimitivePerMesh ==
    (pipe_op = "load_props" /\ pipe_out.ok) =>
       LET geometries == Unwrap(pipe_out.val).geometries
           expected   == C22_ExpectedMeshes(level.static_props)
       IN  /\ Len(geometries) = Len(expected)
           /\ \A i \in 1..Len(expected) :
                 LET g == geometries[i]
                     mesh == expected[i].mesh
                 IN  /\ g.transformation = expected[i].transform
                     /\ IsSome(g.normals) /\ IsSome(g.uvs) /\ IsSome(g.tangents)
                     /\ Len(g.positions) = Len(mesh.vertices)
                     /\ Len(Unwrap(g.normals)) = Len(mesh.vertices)
                     /\ Len(Unwrap(g.uvs)) = Len(mesh.vertices)
                     /\ \A j \in 1..Len(mesh.vertices) :
                           Unwrap(g.uvs)[j] = mesh.vertices[j].texture_coordinates
                     /\ Unwrap(g.tangents) = mesh.tangents

\* C22 witness: load_props ran on two placements of different models that
\* load, the first with two meshes, translated and rotated, and returned
\* three primitives
C22_Witness ==
    /\ pipe_op = "load_props"
    /\ pipe_out.ok
    /\ Len(level.static_props) = 2
    /\ \A i \in 1..2 : C4_Loads(level.static_props[i])
    /\ level.static_props[1].model # level.static_props[2].model
    /\ level.static_props[1].rotation = "yaw90"
    /\ Len(Unwrap(LoadProp(C4_Loader, level.static_props[1].model).val).meshes) = 2
    /\ Len(Unwrap(pipe_out.val).geometries) = 3
    /\ Len(Unwrap(Unwrap(pipe_out.val).geometries[2].uvs)) = 2

-----------------------------------------------------------------------------
(* Claims about the world geometry extractor.                              *)

\* the converted vertices of the visible faces with one texture name, face
\* by face in the order of the model
RECURSIVE C8_ExpectedPositions(_, _)
C8_ExpectedPositions(faces, name) ==
    IF faces = <<>> THEN <<>>
    ELSE LET f == Head(faces)
         IN  (IF f.visible /\ f.texture = name
              THEN [i \in 1..Len(f.vertices) |-> MapCoords(f.vertices[i])]
              ELSE <<>>) \o C8_ExpectedPositions(Tail(faces), name)

\* C8: model_to_model emits exactly one geometry per distinct texture name
\* among the visible faces; each geometry holds the vertices of exactly the
\* visible faces with that texture name, each face once, and no vertex of a
\* face that is not visible is in any geometry.
C8_TextureGrouping ==
    pipe_op = "model_to_model" =>
        LET faces == Head(level.models)
            model == Unwrap(pipe_out.val)
            names == { faces[i].texture : i \in { k \in 1..Len(faces) : faces[k].visible } }
        IN  /\ Len(model.geometries) = Cardinality(names)
            /\ \A name \in names :
                  Cardinality({ i \in 1..Len(model.geometries) :
                      model.geometries[i].material_name = Some(name) }) = 1
            /\ \A i \in 1..Len(model.geometries) :
                  /\ IsSome(model.geometries[i].material_name)
                  /\ model.geometries[i].positions
                        = C8_ExpectedPositions(faces,
                              Unwrap(model.geometries[i].material_name))
            /\ \A k \in 1..Len(faces) : ~faces[k].visible =>
                  \A i \in 1..Len(model.geometries) :
                  \A n \in 1..Len(model.geometries[i].positions) :
                  \A v \in 1..Len(faces[k].vertices) :
                      model.geometries[i].positions[n] # MapCoords(faces[k].vertices[v])

\* C8 witness: the model has three visible faces with texture A, two with
\* texture B and one face with A that is not visible; two geometries came
\* out, the one of A with the nine vertices of three faces
C8_Witness ==
    /\ pipe_op = "model_to_model"
    /\ LET faces == Head(level.models)
           model == Unwrap(pipe_out.val)
       IN  /\ Len(faces) = 6
           /\ Cardinality({ k \in 1..6 : faces[k].visible /\ faces[k].texture = <<"A">> }) = 3
           /\ Cardinality({ k \in 1..6 : faces[k].visible /\ faces[k].texture = <<"B">> }) = 2
           /\ ~faces[2].visible
           /\ faces[2].texture = <<"A">>
           /\ Len(model.geometries) = 2
           /\ \E i \in 1..2 :
                 /\ model.geometries[i].material_name = Some(<<"A">>)
                 /\ Len(model.geometries[i].positions) = 9

-----------------------------------------------------------------------------
(* model_to_mesh (src/src/main.rs): the positions of the world mesh, three *)
(* numbers per vertex.  A face has a polygon and, when it carries           *)
(* displacement data, the triangulated vertices of its displacement.       *)

\* Face::triangulate of the vbsp crate: the triangle fan of the polygon
Triangulate(polygon) ==
    [i \in 1..(Len(polygon) - 2) |-> <<polygon[1], polygon[i + 1], polygon[i + 2]>>]

\* flat_map over a sequence of sequences
RECURSIVE FlatMap(_)
FlatMap(seqs) == IF seqs = <<>> THEN <<>> ELSE Head(seqs) \o FlatMap(Tail(seqs))

\* a mutant of FacePositions: the polygon of a displaced face is fanned too
FacePositions_Both(face) ==
    IF IsSome(face.displacement)
    THEN Unwrap(face.displacement) \o FlatMap(Triangulate(face.polygon))
    ELSE FlatMap(Triangulate(face.polygon))

\* the closure of model_to_mesh's first flat_map: the vertices of one face
FacePositions(face) ==
    IF IsSome(face.displacement)
    THEN Unwrap(face.displacement)
    ELSE FlatMap(Triangulate(face.polygon))

\* model_to_mesh: the visible faces, their vertices, map_coords flattened
ModelToMesh(faces) ==
    LET visible == VisibleFaces(faces)
        verts == FlatMap([i \in 1..Len(visible) |-> FacePositions(visible[i])])
    IN  [positions |-> FlatMap([i \in 1..Len(verts) |-> MapCoords(verts[i])])]

\* a face of the level model: shown or not, with or without displacement
\* data, a triangle or a quad
MeshFaceKinds == [visible : BOOLEAN, displaced : BOOLEAN, sides : {3, 4}]

\* the polygon of the i-th face, in the plane z = 0
MeshPolygon(i, sides) ==
    SubSeq(<< <<i, 0, 0>>, <<i, 1, 0>>, <<i, 2, 0>>, <<i, 3, 0>> >>, 1, sides)

\* the displaced vertices of the i-th face: two triangles off the plane
MeshDisplacement(i) == [k \in 1..6 |-> <<i, k, 7>>]

\* the faces of a model, from the kinds of its faces
MeshFaces(kinds) ==
    [i \in 1..Len(kinds) |->
        [visible |-> kinds[i].visible,
         polygon |-> MeshPolygon(i, kinds[i].sides),
         displacement |-> IF kinds[i].displaced THEN Some(MeshDisplacement(i)) ELSE None]]

InitModelToMesh ==
    /\ fn_op = ""
    /\ fn_in \in { MeshFaces(kinds) : kinds \in SeqsUpTo(MeshFaceKinds, MaxMeshFaces) }
    /\ fn_out = <<>>

DoModelToMesh ==
    /\ fn_op = ""
    /\ fn_op' = "model_to_mesh"
    /\ fn_out' = ModelToMesh(fn_in)
    /\ UNCHANGED fn_in
    /\ UNCHANGED notFn

\* how many vertices of the mesh are the converted vertex v
C23_Count(positions, v) ==
    Cardinality({ k \in 0..((Len(positions) \div 3) - 1) :
                    SubSeq(positions, 3 * k + 1, 3 * k + 3) = MapCoords(v) })

\* how many corners of the fan triangles of the polygon are its n-th vertex
C23_FanCount(sides, n) ==
    IF n = 1 THEN sides - 2
    ELSE IF n = 2 \/ n = sides THEN 1
    ELSE 2

\* C23: every visible face contributes its vertices to the world geometry
\* through exactly one route: its triangulated displaced vertices, each
\* once, when it carries displacement data, and the fan triangulation of
\* its polygon otherwise; no vertex of the polygon of a displaced face is
\* in the mesh, and a face that is not visible contributes nothing.
C23_OneRoute ==
    fn_op = "model_to_mesh" =>
        /\ \A i \in 1..Len(fn_in) :
              LET face == fn_in[i]
                  displaced == IsSome(face.displacement)
              IN  /\ \A n \in 1..Len(face.polygon) :
                        C23_Count(fn_out.positions, face.polygon[n]) =
                           (IF face.visible /\ ~displaced
                            THEN C23_FanCount(Len(face.polygon), n) ELSE 0)
                  /\ \A k \in 1..6 :
                        C23_Count(fn_out.positions, MeshDisplacement(i)[k]) =
                           (IF face.visible /\ displaced THEN 1 ELSE 0)
        /\ Len(fn_out.positions) % 9 = 0

\* C23 witness: a model with a visible displaced face, a visible quad
\* without displacement and a hidden face was converted
C23_Witness ==
    /\ fn_op = "model_to_mesh"
    /\ Len(fn_in) = 3
    /\ \E i, j, k \in 1..3 :
          /\ fn_in[i].visible /\ IsSome(fn_in[i].displacement)
          /\ fn_in[j].visible /\ fn_in[j].displacement = None /\ Len(fn_in[j].polygon) = 4
          /\ ~fn_in[k].visible
    /\ Len(fn_out.positions) = 3 * (6 + 6)

-----------------------------------------------------------------------------
(* get_index called on one MaterialSet by several workers at once.         *)
(* MaterialSet keeps its list in a RefCell: get_index takes no lock, and   *)
(* borrow_mut reads the borrow flag and then writes it as two plain memory *)
(* accesses.  Each worker runs the body of get_index one access of the     *)
(* shared state at a time (a push counts as one access).                   *)

Workers == {1, 2}

\* The borrow flag of a RefCell is 0 while nothing borrows it and -1 while
\* a RefMut is alive.

\* the TextureInfos the workers ask for
WorkerInfos ==
    { info \in TextureInfos : info.search_paths \in {<<>>, <<<<"d", "/">>>>} }

InitWorkers ==
    /\ loader \in Loaders
    /\ materials = <<>>        \* MaterialSet::new: RefCell::default()
    /\ borrow = 0
    /\ set_state = "live"
    /\ drained = <<>>
    /\ calls = {}
    /\ ncalls = 0
    /\ workers \in [Workers ->
          { [pc |-> "get_index", info |-> info, material |-> <<>>, seen |-> 0,
             found |-> None, index |-> None] : info \in WorkerInfos }]

\* get_index: the search path and the material name (no shared state)
WorkerResolve(w) ==
    /\ workers[w].pc = "get_index"
    /\ workers' = [workers EXCEPT ![w].pc = "borrow_mut",
                                  ![w].material = ResolveMaterial(loader, workers[w].info)]
    /\ UNCHANGED <<loader, materials, borrow>>
    /\ UNCHANGED notWorkers

\* self.materials.borrow_mut(): the read of the borrow flag
WorkerReadBorrow(w) ==
    /\ workers[w].pc = "borrow_mut"
    /\ workers' = [workers EXCEPT ![w].pc = "try_borrow_mut", ![w].seen = borrow]
    /\ UNCHANGED <<loader, materials, borrow>>
    /\ UNCHANGED notWorkers

\* self.materials.borrow_mut(): the flag is set when it was seen unused,
\* and the call panics ("already borrowed") when it was not
WorkerBorrowMut(w) ==
    /\ workers[w].pc = "try_borrow_mut"
    /\ IF workers[w].seen = 0
       THEN /\ borrow' = -1
            /\ workers' = [workers EXCEPT ![w].pc = "find_map"]
       ELSE /\ borrow' = borrow
            /\ workers' = [workers EXCEPT ![w].pc = "panicked"]
    /\ UNCHANGED <<loader, materials>>
    /\ UNCHANGED notWorkers

\* materials.iter().enumerate().find_map(..)
WorkerFind(w) ==
    /\ workers[w].pc = "find_map"
    /\ LET found == FindIndex(materials, workers[w].material)
       IN  workers' = [workers EXCEPT
              ![w].found = found,
              ![w].index = found,
              ![w].pc = IF IsSome(found) THEN "drop" ELSE "len"]
    /\ UNCHANGED <<loader, materials, borrow>>
    /\ UNCHANGED notWorkers

\* None => let i = materials.len()
WorkerLen(w) ==
    /\ workers[w].pc = "len"
    /\ workers' = [workers EXCEPT ![w].index = Some(Len(materials)), ![w].pc = "push"]
    /\ UNCHANGED <<loader, materials, borrow>>
    /\ UNCHANGED notWorkers

\* materials.push(material)
WorkerPush(w) ==
    /\ workers[w].pc = "push"
    /\ materials' = Push(materials, workers[w].material)
    /\ workers' = [workers EXCEPT ![w].pc = "drop"]
    /\ UNCHANGED <<loader, borrow>>
    /\ UNCHANGED notWorkers

\* the RefMut goes out of scope: the flag is counted back up, and
\* get_index returns the index
WorkerDrop(w) ==
    /\ workers[w].pc = "drop"
    /\ borrow' = borrow + 1
    /\ workers' = [workers EXCEPT ![w].pc = "returned"]
    /\ UNCHANGED <<loader, materials>>
    /\ UNCHANGED notWorkers

\* C10: get_index is safe to call from several workers at once: under every
\* interleaving no call fails, calls with equal keys return the same index
\* and calls with distinct keys distinct indices, every key asked for is
\* stored at the index returned for it, and no entry is stored twice.
C10_SerializedIndexAssignment ==
    /\ \A w \in Workers : workers[w].pc # "panicked"
    /\ \A v, w \in Workers :
          (workers[v].pc = "returned" /\ workers[w].pc = "returned") =>
              ((workers[v].material = workers[w].material)
                  <=> (workers[v].index = workers[w].index))
    /\ \A w \in Workers : workers[w].pc = "returned" =>
          /\ Unwrap(workers[w].index) < Len(materials)
          /\ materials[Unwrap(workers[w].index) + 1] = workers[w].material
    /\ \A i, j \in 1..Len(materials) : materials[i] = materials[j] => i = j

-----------------------------------------------------------------------------
(* f32 arithmetic.  A finite f32 is [m, e], the number m * 2^e, with m odd *)
(* (or m = 0 and e = 0), so that equal numbers are equal records; |m| is   *)
(* below 2^24.  Every operation rounds its exact result to 24 significant  *)
(* bits, to nearest, ties to even.  The numbers of the model stay clear of *)
(* overflow and of the subnormal range.                                    *)

Abs(n) == IF n < 0 THEN -n ELSE n

Max(a, b) == IF a >= b THEN a ELSE b

\* the number of bits of a natural number
RECURSIVE BitLen(_)
BitLen(n) == IF n = 0 THEN 0 ELSE 1 + BitLen(n \div 2)

\* m * 2^e in its one representation
RECURSIVE F32Canon(_, _)
F32Canon(m, e) ==
    IF m = 0 THEN [m |-> 0, e |-> 0]
    ELSE IF m % 2 = 0 THEN F32Canon(m \div 2, e + 1)
    ELSE [m |-> m, e |-> e]

\* (n + f) / 2^k rounded to an integer, to nearest, ties to even; f is a
\* fraction in (0, 1) when sticky and 0 when not
RoundShift(n, k, sticky) ==
    IF k = 0 THEN n
    ELSE LET q == n \div (2 ^ k)
             r == n % (2 ^ k)
             half == 2 ^ (k - 1)
         IN  IF r < half THEN q
             ELSE IF r > half \/ sticky THEN q + 1
             ELSE IF q % 2 = 0 THEN q ELSE q + 1

\* the f32 nearest to (n + f) * 2^e
F32Round(n, e, sticky) ==
    LET k == Max(0, BitLen(Abs(n)) - 24)
    IN  F32Canon(RoundShift(n, k, sticky), e + k)

\* an integer `as f32`
F32FromInt(n) == F32Round(n, 0, FALSE)

F32Neg(x) == [m |-> -x.m, e |-> x.e]

\* x * y: the 48-bit product of the significands, by halves of 12 bits
F32Mul(x, y) ==
    LET a == Abs(x.m)
        b == Abs(y.m)
        sign == IF (x.m < 0) = (y.m < 0) THEN 1 ELSE -1
        hh == (a \div 4096) * (b \div 4096)
        mid == (a \div 4096) * (b % 4096) + (a % 4096) * (b \div 4096)
        ll == (a % 4096) * (b % 4096)
        low == (mid % 4096) * 4096 + ll
        hi == hh + (mid \div 4096) + (low \div 16777216)
        lo == low % 16777216
        k == BitLen(hi)
        kept == hi * (2 ^ (24 - k)) + (lo \div (2 ^ k))
        r == lo % (2 ^ k)
        half == 2 ^ (k - 1)
        rounded == IF r < half THEN kept
                   ELSE IF r > half THEN kept + 1
                   ELSE IF kept % 2 = 0 THEN kept ELSE kept + 1
    IN  IF hi = 0 THEN F32Canon(sign * lo, x.e + y.e)
        ELSE F32Canon(sign * rounded, x.e + y.e + k)

\* x + y: both are brought to one exponent, 30 bits below the top bit of
\* the larger; what the smaller loses there is kept as sticky
F32Add(x, y) ==
    IF x.m = 0 THEN y
    ELSE IF y.m = 0 THEN x
    ELSE LET top == Max(x.e + BitLen(Abs(x.m)), y.e + BitLen(Abs(y.m)))
             base == top - 30
             n(v) == IF v.e >= base THEN v.m * (2 ^ (v.e - base))
                     ELSE IF base - v.e >= 25 THEN (IF v.m < 0 THEN -1 ELSE 0)
                     ELSE v.m \div (2 ^ (base - v.e))
             s(v) == IF v.e >= base THEN FALSE
                     ELSE IF base - v.e >= 25 THEN TRUE
                     ELSE v.m % (2 ^ (base - v.e)) # 0
         IN  F32Round(n(x) + n(y), base, s(x) \/ s(y))

F32Sub(x, y) == F32Add(x, F32Neg(y))

\* the quotient bits of a long division, until there are 26 of them
RECURSIVE DivBits(_, _, _, _)
DivBits(q, rem, b, e) ==
    IF BitLen(q) >= 26 THEN [q |-> q, rem |-> rem, e |-> e]
    ELSE IF 2 * rem >= b THEN DivBits(2 * q + 1, 2 * rem - b, b, e - 1)
    ELSE DivBits(2 * q, 2 * rem, b, e - 1)

\* x / y, y not zero
F32Div(x, y) ==
    LET a == Abs(x.m)
        b == Abs(y.m)
        sign == IF (x.m < 0) = (y.m < 0) THEN 1 ELSE -1
        d == DivBits(a \div b, a % b, b, x.e - y.e)
        r == F32Round(d.q, d.e, d.rem # 0)
    IN  IF x.m = 0 THEN x ELSE [m |-> sign * r.m, e |-> r.e]

\* x < y
F32Lt(x, y) == F32Sub(x, y).m < 0

-----------------------------------------------------------------------------
(* map_coords, as the build computes it: in f32.                           *)

\* the literal 1.905: the f32 nearest to 1905/1000
F32Literal1905 == F32Div(F32FromInt(1905), F32FromInt(1000))

\* pub const UNIT_SCALE: f32 = 1.0 / (1.905 * 100.0)
UNIT_SCALE == F32Div(F32FromInt(1), F32Mul(F32Literal1905, F32FromInt(100)))

\* a mutant of MapCoordsF32: the axes are not exchanged
MapCoordsF32_SameAxes(v) ==
    <<F32Mul(v[1], UNIT_SCALE), F32Mul(v[2], UNIT_SCALE), F32Mul(v[3], UNIT_SCALE)>>

\* map_coords
MapCoordsF32(v) ==
    <<F32Mul(v[2], UNIT_SCALE), F32Mul(v[3], UNIT_SCALE), F32Mul(v[1], UNIT_SCALE)>>

\* Vec3 + Vec3 and f32 * Vec3
Vec3Add(a, b) == [i \in 1..3 |-> F32Add(a[i], b[i])]
Vec3Scale(k, a) == [i \in 1..3 |-> F32Mul(k, a[i])]

\* the coordinates and the scalars of the model
CoordValues ==
    { F32FromInt(n) : n \in {-64, -63, -58, 0} } \cup { F32Literal1905 }
ScalarValues == { F32FromInt(n) : n \in {-15, 2, 3} }

InitMapCoords ==
    /\ fn_op = ""
    /\ fn_in \in [a : [1..3 -> CoordValues], b : [1..3 -> CoordValues], k : ScalarValues]
    /\ fn_out = <<>>

\* map_coords applied to a, to b, to a + b, to k * a and to the zero vector
DoMapCoords ==
    /\ fn_op = ""
    /\ fn_op' = "map_coords"
    /\ fn_out' = [a     |-> MapCoordsF32(fn_in.a),
                  b     |-> MapCoordsF32(fn_in.b),
                  sum   |-> MapCoordsF32(Vec3Add(fn_in.a, fn_in.b)),
                  scale |-> MapCoordsF32(Vec3Scale(fn_in.k, fn_in.a)),
                  zero  |-> MapCoordsF32([i \in 1..3 |-> F32FromInt(0)])]
    /\ UNCHANGED fn_in
    /\ UNCHANGED notFn

\* the f32 nearest to 1/190.5, which is 704555 * 2^-27
C13_Scale == [m |-> 704555, e |-> -27]

\* the f32 nearest to 0.01, which is 5368709 * 2^-29
C13_Hundredth == [m |-> 5368709, e |-> -29]

C13_Zero == [m |-> 0, e |-> 0]

\* the parts of C13 that hold as they are claimed: (x, y, z) goes to
\* (y*S, z*S, x*S), the zero vector to the zero vector and (1.905, 0, 0) to
\* (0, 0, 0.01)
C13_Formula ==
    /\ fn_out.a = <<F32Mul(fn_in.a[2], C13_Scale), F32Mul(fn_in.a[3], C13_Scale),
                    F32Mul(fn_in.a[1], C13_Scale)>>
    /\ fn_out.zero = <<C13_Zero, C13_Zero, C13_Zero>>
    /\ fn_in.a = <<F32Literal1905, C13_Zero, C13_Zero>> =>
          fn_out.a = <<C13_Zero, C13_Zero, C13_Hundredth>>

\* C13, as claimed: map_coords maps (x, y, z) to (y*S, z*S, x*S) and is
\* linear: map_coords(a+b) = map_coords(a) + map_coords(b) and
\* map_coords(s*a) = s * map_coords(a) for all vectors and scalars.
C13_Linear ==
    fn_op = "map_coords" =>
        /\ C13_Formula
        /\ fn_out.sum = Vec3Add(fn_out.a, fn_out.b)
        /\ fn_out.scale = Vec3Scale(fn_in.k, fn_out.a)

\* |x - y| <= 2^-21 * S * w
C13_Within(x, y, w) ==
    LET d == F32Sub(x, y)
        bound == F32Mul(w, C13_Scale)
    IN  ~F32Lt([m |-> bound.m, e |-> bound.e - 21], [m |-> Abs(d.m), e |-> d.e])

C13_AbsF32(x) == [m |-> Abs(x.m), e |-> x.e]

\* C13, amended: map_coords maps (x, y, z) to (y*S, z*S, x*S), each product
\* rounded to f32; the zero vector goes to the zero vector and (1.905, 0, 0)
\* to (0, 0, 0.01); it is linear up to the rounding: each component of
\* map_coords(a+b) is within 2^-21 * S * (|a_i| + |b_i|) of that of
\* map_coords(a) + map_coords(b), and each component of map_coords(s*a)
\* within 2^-21 * S * |s*a_i| of that of s * map_coords(a).
C13_LinearUpToRounding ==
    fn_op = "map_coords" =>
        /\ C13_Formula
        /\ \A i \in 1..3 :
              LET j == (i % 3) + 1
              IN  /\ C13_Within(fn_out.sum[i], Vec3Add(fn_out.a, fn_out.b)[i],
                                F32Add(C13_AbsF32(fn_in.a[j]), C13_AbsF32(fn_in.b[j])))
                  /\ C13_Within(fn_out.scale[i], Vec3Scale(fn_in.k, fn_out.a)[i],
                                C13_AbsF32(F32Mul(fn_in.k, fn_in.a[j])))

\* C13 witness: map_coords ran on (1.905, 0, 0) and on a sum whose image is
\* not the sum of the images
C13_Witness ==
    /\ fn_op = "map_coords"
    /\ fn_in.a = <<F32Literal1905, C13_Zero, C13_Zero>>
    /\ fn_out.a = <<C13_Zero, C13_Zero, C13_Hundredth>>
    /\ fn_out.sum # Vec3Add(fn_out.a, fn_out.b)

-----------------------------------------------------------------------------
(* Wrapping<MIN, MAX> (src/src/wrapping.rs).  A range is [min, max], the   *)
(* two const parameters; the numbers are f32.                              *)

\* unwrap::<MIN, MAX>(a, b)
unwrap(r, a, b) ==
    LET offset == F32FromInt(r.max - r.min)
    IN  IF F32Lt(F32Sub(a, b), F32FromInt(r.min)) THEN <<F32Add(a, offset), b>>
        ELSE IF F32Lt(F32Sub(b, a), F32FromInt(r.min)) THEN <<a, F32Add(b, offset)>>
        ELSE <<a, b>>

\* wrap::<MIN, MAX>(num)
wrap(r, num) ==
    LET offset == F32FromInt(r.max - r.min)
    IN  IF F32Lt(F32FromInt(r.max), num) THEN F32Sub(num, offset)
        ELSE IF F32Lt(num, F32FromInt(r.min)) THEN F32Add(num, offset)
        ELSE num

\* f32::lerp of the splines crate: a * (1. - t) + b * t
F32Lerp(t, a, b) ==
    F32Add(F32Mul(a, F32Sub(F32FromInt(1), t)), F32Mul(b, t))

\* <Wrapping<MIN, MAX> as Interpolate<f32>>::lerp
lerp(r, t, a, b) ==
    LET u == unwrap(r, a, b)
        c == F32Lerp(t, u[1], u[2])
    IN  wrap(r, c)

\* the ranges the repository uses: <-180, 180> for the view angles,
\* <0, 100> and <-100, 100> in test_unwrap
WrapRanges ==
    { [min |-> -180, max |-> 180], [min |-> 0, max |-> 100], [min |-> -100, max |-> 100] }

\* the numbers of a range the model interpolates between
WrapValues(r) == { v \in r.min..r.max : v % 20 = 0 }

\* the interpolation parameters: 0, 1/4, 1/2, 3/4 and 1
WrapParameters == { F32Div(F32FromInt(n), F32FromInt(4)) : n \in 0..4 }

InitWrapping ==
    /\ fn_op = ""
    /\ \E r \in WrapRanges :
          fn_in \in [range : {r},
                     a : { F32FromInt(v) : v \in WrapValues(r) },
                     b : { F32FromInt(v) : v \in WrapValues(r) },
                     t : WrapParameters]
    /\ fn_out = <<>>

DoUnwrap ==
    /\ fn_op = ""
    /\ fn_op' = "unwrap"
    /\ fn_out' = unwrap(fn_in.range, fn_in.a, fn_in.b)
    /\ UNCHANGED fn_in
    /\ UNCHANGED notFn

DoLerp ==
    /\ fn_op = ""
    /\ fn_op' = "lerp"
    /\ fn_out' = lerp(fn_in.range, fn_in.t, fn_in.a, fn_in.b)
    /\ UNCHANGED fn_in
    /\ UNCHANGED notFn

\* the integer an f32 of the model is
C15_Value(x) == IF x.e >= 0 THEN x.m * (2 ^ x.e) ELSE x.m \div (2 ^ (-x.e))

C15_IsInteger(x) == x.e >= 0

\* unwrap's result for a range: each output is its input or its input plus
\* MAX - MIN, at most one is shifted, and the outputs are no further apart
\* than half the range
C15_ShortestWayIn(r) ==
    LET a  == C15_Value(fn_in.a)
        b  == C15_Value(fn_in.b)
        a2 == C15_Value(fn_out[1])
        b2 == C15_Value(fn_out[2])
        size == r.max - r.min
    IN  /\ C15_IsInteger(fn_out[1]) /\ C15_IsInteger(fn_out[2])
        /\ a2 \in {a, a + size}
        /\ b2 \in {b, b + size}
        /\ a2 = a \/ b2 = b
        /\ 2 * Abs(a2 - b2) <= size

\* C15 for the ranges with MIN = -MAX, the only ones the viewer uses
C15_SymmetricShortestWay ==
    (fn_op = "unwrap" /\ fn_in.range.min = -fn_in.range.max) =>
        C15_ShortestWayIn(fn_in.range)

\* C15: for every a and b within [MIN, MAX], unwrap::<MIN, MAX>(a, b)
\* returns (a', b') in which each output is its input plus 0 or MAX - MIN,
\* at most one of the two is shifted, and a' - b' is the wrapping
\* difference between a and b, so that |a' - b'| is at most (MAX - MIN)/2.
C15_ShortestWay ==
    fn_op = "unwrap" => C15_ShortestWayIn(fn_in.range)

\* the result of lerp for a range: a number of the range that is, modulo
\* MAX - MIN, the point at t of the shorter way from a to b.  Numbers are
\* counted in quarters, t being n/4.
C16_ShorterWayIn(r) ==
    LET a == C15_Value(fn_in.a)
        b == C15_Value(fn_in.b)
        n == C15_Value(F32Mul(fn_in.t, F32FromInt(4)))
        size == r.max - r.min
        c4 == C15_Value(F32Mul(fn_out, F32FromInt(4)))
        ways == { d \in (-size)..size :
                    /\ (d - (b - a)) % size = 0
                    /\ 2 * Abs(d) <= size }
    IN  /\ C15_IsInteger(F32Mul(fn_out, F32FromInt(4)))
        /\ 4 * r.min <= c4
        /\ c4 <= 4 * r.max
        /\ \E d \in ways : (c4 - (4 * a + n * d)) % (4 * size) = 0

\* C16 for the ranges with MIN = -MAX
C16_SymmetricShorterWay ==
    (fn_op = "lerp" /\ fn_in.range.min = -fn_in.range.max) =>
        C16_ShorterWayIn(fn_in.range)

\* C16: Wrapping::lerp interpolates the shorter way round the wrapped range
\* and stays in range, for every a and b within [MIN, MAX] and every t in
\* [0, 1]; between 160 and -160 on [-180, 180] it passes through 180 and
\* never through 0.
C16_ShorterWay ==
    fn_op = "lerp" =>
        /\ C16_ShorterWayIn(fn_in.range)
        /\ (/\ fn_in.range = [min |-> -180, max |-> 180]
            /\ fn_in.a = F32FromInt(160)
            /\ fn_in.b = F32FromInt(-160)) =>
              /\ Abs(C15_Value(fn_out)) >= 160
              /\ fn_in.t = F32Div(F32FromInt(1), F32FromInt(2)) => fn_out = F32FromInt(180)

-----------------------------------------------------------------------------
(* Loader::find_in_paths, applied to the search path get_index builds.     *)

\* search-path lists with and without the slash at the end of a prefix
ProbePathLists ==
    SearchPathLists \cup
        { << <<"d">> >>,
          << <<"d">>, <<"e", "/">> >>,
          << <<"e", "/">>, <<"d">> >>,
          << <<"e">>, <<"d">> >> }

InitFindInPaths ==
    /\ loader \in Loaders
    /\ fn_op = ""
    /\ fn_in \in [name : { MaterialName(n) : n \in TextureNames },
                  paths : { SearchPath(l) : l \in ProbePathLists }]
    /\ fn_out = <<>>

DoFindInPaths ==
    /\ fn_op = ""
    /\ fn_op' = "find_in_paths"
    /\ fn_out' = FindInPaths(loader, fn_in.name, fn_in.paths)
    /\ UNCHANGED <<loader, fn_in>>
    /\ UNCHANGED <<msVars, matVars, pipeVars, wkVars, uiVars>>

\* <prefix>/<name>: the name in the directory the prefix names
C17_Under(prefix, name) == TrimEndMatches(prefix, <<"/">>) \o <<"/">> \o name

\* the probe returns the path under the first prefix, in list order, under
\* which the loader holds the name, and None when it is under no prefix
C17_FirstHitOf(paths) ==
    LET hits == { k \in 1..Len(paths) : Exists(loader, C17_Under(paths[k], fn_in.name)) }
    IN  IF hits = {} THEN fn_out = None
        ELSE fn_out = Some(C17_Under(paths[CHOOSE k \in hits : \A h \in hits : k <= h],
                                     fn_in.name))

\* C17 for the lists whose prefixes all end with a slash
C17_SlashedFirstHit ==
    (/\ fn_op = "find_in_paths"
     /\ \A k \in 1..Len(fn_in.paths) : EndsWith(fn_in.paths[k], <<"/">>)) =>
        C17_FirstHitOf(fn_in.paths)

\* C17: probing a material name against an ordered list of search-path
\* prefixes returns the path <prefix>/<name> under the first prefix, in list
\* order, for which the asset exists, and signals not-found when the asset
\* exists under no prefix.
C17_FirstHit ==
    fn_op = "find_in_paths" => C17_FirstHitOf(fn_in.paths)

-----------------------------------------------------------------------------
(* convert_material and convert_texture (src/src/material.rs): a           *)
(* MaterialData becomes the renderer's CpuMaterial.  A decoded image is    *)
(* [of, color], color the image's color type; the pixel data of a          *)
(* CpuTexture is named by its variant, RgbaU8 or RgbU8.                    *)

\* ColorType::has_alpha of the image crate
HasAlpha(color) == color \in {"La8", "Rgba8"}

\* a mutant of convert_texture: the alpha channel of the image is always kept
convert_texture_KeepsAlways(texture, keep_alpha) ==
    [data |-> IF HasAlpha(texture.image.color) THEN "RgbaU8" ELSE "RgbU8",
     name |-> texture.name]

\* convert_texture
convert_texture(texture, keep_alpha) ==
    [data |-> IF HasAlpha(texture.image.color) /\ keep_alpha THEN "RgbaU8" ELSE "RgbU8",
     name |-> texture.name]

\* convert_material
convert_material(material) ==
    [albedo |-> material.color,
     name |-> material.path,
     albedo_texture |->
        IF IsSome(material.texture)
        THEN Some(convert_texture(Unwrap(material.texture),
                                  material.translucent \/ IsSome(material.alpha_test)))
        ELSE None,
     alpha_cutout |-> material.alpha_test,
     normal_texture |->
        IF IsSome(material.bump_map)
        THEN Some(convert_texture(Unwrap(material.bump_map), TRUE))
        ELSE None]

\* the images the decoder can give for a texture file
DecodedImages(name) ==
    { [of |-> TexturePath(name), color |-> c] : c \in {"L8", "La8", "Rgb8", "Rgba8"} }

\* the textures a MaterialData can hold under a name
DecodedTextures(name) ==
    { None } \cup { Some([name |-> name, image |-> i]) : i \in DecodedImages(name) }

\* the MaterialData values load_material can return
ConvertInputs ==
    { [MaterialDataDefault EXCEPT
            !.path = MaterialPath(<<"a">>),
            !.color = <<255, 255, 255, 255>>,
            !.texture = tex,
            !.bump_map = bump,
            !.alpha_test = cut,
            !.translucent = tr] :
        tex \in DecodedTextures(<<"t">>),
        bump \in DecodedTextures(<<"n">>),
        cut \in {None, Some(1)},
        tr \in BOOLEAN }

InitConvert ==
    /\ fn_op = ""
    /\ fn_in \in ConvertInputs
    /\ fn_out = <<>>

DoConvertMaterial ==
    /\ fn_op = ""
    /\ fn_op' = "convert_material"
    /\ fn_out' = convert_material(fn_in)
    /\ UNCHANGED fn_in
    /\ UNCHANGED notFn

\* the material needs its alpha: it is translucent or has an alpha-test cutoff
C20_NeedsAlpha(material) == material.translucent \/ IsSome(material.alpha_test)

\* the converted texture has an alpha channel exactly when its image had one
\* and keep holds
C20_AlphaIff(converted, source, keep) ==
    IsSome(source) =>
        /\ IsSome(converted)
        /\ Unwrap(converted).data =
              (IF HasAlpha(Unwrap(source).image.color) /\ keep THEN "RgbaU8" ELSE "RgbU8")

\* C20 as stated: convert_material keeps the alpha channel of a decoded
\* texture only when the material is translucent or has an alpha-test
\* cutoff, and otherwise drops it: the pixel data is RGB, for the base texture
\* and for the bump map alike.
C20_AlphaOnlyWhenNeeded ==
    fn_op = "convert_material" =>
        /\ C20_AlphaIff(fn_out.albedo_texture, fn_in.texture, C20_NeedsAlpha(fn_in))
        /\ C20_AlphaIff(fn_out.normal_texture, fn_in.bump_map, C20_NeedsAlpha(fn_in))

\* C20, amended: the rule holds of the base texture; the bump map keeps the
\* alpha channel of its image whatever the material is.
C20_BaseAlphaOnlyWhenNeeded ==
    fn_op = "convert_material" =>
        /\ C20_AlphaIff(fn_out.albedo_texture, fn_in.texture, C20_NeedsAlpha(fn_in))
        /\ C20_AlphaIff(fn_out.normal_texture, fn_in.bump_map, TRUE)
        /\ fn_in.texture = None => fn_out.albedo_texture = None
        /\ fn_in.bump_map = None => fn_out.normal_texture = None
        /\ fn_out.alpha_cutout = fn_in.alpha_test

\* C20 witness: an opaque material without alpha test, whose base texture
\* and bump map both have an alpha channel, was converted: the base texture
\* lost its alpha and the bump map kept it
C20_Witness ==
    /\ fn_op = "convert_material"
    /\ ~C20_NeedsAlpha(fn_in)
    /\ IsSome(fn_in.texture)
    /\ IsSome(fn_in.bump_map)
    /\ Unwrap(fn_in.texture).image.color = "Rgba8"
    /\ Unwrap(fn_in.bump_map).image.color = "Rgba8"
    /\ Unwrap(fn_out.albedo_texture).data = "RgbU8"
    /\ Unwrap(fn_out.normal_texture).data = "RgbaU8"

-----------------------------------------------------------------------------
(* PovAnalyzer (src/src/demo.rs): the demo parser calls its handlers; the  *)
(* record analyzer holds its fields; given (the name it was created with)  *)
(* and handled (the number of calls made) are history.                     *)

\* str::contains
Contains(s, pat) ==
    \E i \in 0..(Len(s) - Len(pat)) : SubSeq(s, i + 1, i + Len(pat)) = pat

\* Key::new(u32::from(tick) as f32, value, _)
Key(tick, value) == [t |-> F32FromInt(tick), value |-> value]

\* PovAnalyzer::new
NewPovAnalyzer(name) ==
    [last_position |-> <<F32FromInt(0), F32FromInt(0), F32FromInt(0)>>,
     view_offset |-> F32FromInt(0),
     positions |-> [positions |-> <<>>, pitch |-> <<>>, yaw |-> <<>>],
     name |-> name,
     player |-> None,
     start_tick |-> 0,
     pov_name |-> <<>>,
     is_pov |-> FALSE,
     last_tick |-> 0,
     last_pov_tick |-> 0,
     given |-> name,
     handled |-> 0]

\* handle_header
HandleHeader(a, header) ==
    [a EXCEPT !.pov_name = header.nick,
              !.name = IF a.name = <<>> THEN ToAsciiLowercase(header.nick) ELSE @]

\* f32::try_from(&prop.value).unwrap_or_default()
PropF32(value) == IF value.kind = "float" THEN F32FromInt(value.f) ELSE F32FromInt(0)

\* VectorXY::try_from(&prop.value).unwrap_or_default()
PropXY(value) ==
    IF value.kind = "xy" THEN <<F32FromInt(value.xy[1]), F32FromInt(value.xy[2])>>
    ELSE <<F32FromInt(0), F32FromInt(0)>>

\* one arm of the match on prop.identifier in handle_message
HandleProp(a, prop, tick) ==
    CASE prop.identifier = "m_vecOrigin" ->
            [a EXCEPT !.last_position =
                 <<PropXY(prop.value)[1], PropXY(prop.value)[2], @[3]>>]
      [] prop.identifier = "m_vecOrigin[2]" ->
            [a EXCEPT !.last_position = <<@[1], @[2], PropF32(prop.value)>>]
      [] prop.identifier = "m_angEyeAngles[0]" ->
            [a EXCEPT !.positions.pitch = Append(@, Key(tick, PropF32(prop.value)))]
      [] prop.identifier = "m_angEyeAngles[1]" ->
            [a EXCEPT !.positions.yaw = Append(@, Key(tick, PropF32(prop.value)))]
      [] prop.identifier = "m_vecViewOffset[2]" ->
            [a EXCEPT !.view_offset = F32Mul(PropF32(prop.value), UNIT_SCALE)]
      [] OTHER -> a

\* for prop in &entity.props
RECURSIVE HandleProps(_, _, _)
HandleProps(a, props, tick) ==
    IF props = <<>> THEN a
    ELSE HandleProps(HandleProp(a, Head(props), tick), Tail(props), tick)

\* for entity in &message.entities
RECURSIVE HandleEntities(_, _, _)
HandleEntities(a, entities, tick) ==
    IF entities = <<>> THEN a
    ELSE LET entity == Head(entities)
             next == IF entity.entity_index = Unwrap(a.player)
                     THEN HandleProps(a, entity.props, tick)
                     ELSE a
         IN  HandleEntities(next, Tail(entities), tick)

\* vec3(pos[0], pos[1] + self.view_offset, pos[2]) of map_coords(position)
ViewPosition(position, view_offset) ==
    LET pos == MapCoordsF32(position)
    IN  <<pos[1], F32Add(pos[2], view_offset), pos[3]>>

\* handle_message
HandleMessage(a, message, tick) ==
    IF ~(tick > a.last_tick) THEN a
    ELSE LET a1 == [a EXCEPT !.last_tick = tick]
             a2 == IF IsSome(a1.player)
                   THEN HandleEntities(
                            [a1 EXCEPT !.start_tick = IF @ = 0 THEN tick ELSE @],
                            message.entities, tick)
                   ELSE a1
         IN  IF (a2.last_position # a.last_position \/ a.view_offset # a2.view_offset)
                    /\ ~a2.is_pov
             THEN [a2 EXCEPT !.positions.positions =
                      Append(@, Key(tick, ViewPosition(a2.last_position, a2.view_offset)))]
             ELSE a2

\* parse_user_info
ParseUserInfo(a, user) ==
    IF IsSome(user) /\ Contains(ToAsciiLowercase(Unwrap(user).name), a.name)
    THEN [a EXCEPT !.is_pov = (Unwrap(user).name = a.pov_name),
                   !.player = Some(Unwrap(user).entity_id)]
    ELSE a

\* handle_string_entry
HandleStringEntry(a, table, user) ==
    IF table = "userinfo" /\ a.player = None THEN ParseUserInfo(a, user) ELSE a

\* handle_packet_meta
HandlePacketMeta(a, tick, meta) ==
    IF tick # a.last_pov_tick
    THEN IF a.is_pov
         THEN [a EXCEPT
                 !.last_pov_tick = tick,
                 !.positions.pitch = Append(@, Key(tick, meta.pitch)),
                 !.positions.yaw = Append(@, Key(tick, meta.yaw)),
                 !.positions.positions =
                     Append(@, Key(tick, ViewPosition(meta.origin, a.view_offset)))]
         ELSE [a EXCEPT !.last_pov_tick = tick]
    ELSE a

\* the names of the players of the demo
PlayerNames == { <<"B", "o">>, <<"b", "o", "b">>, <<"a">> }

\* the names PovAnalyzer is created with: none, or a player to follow
AnalyzerNames == { <<>>, <<"a">> }

\* the headers of the demos: the nick of the recording player
Headers == { [nick |-> n] : n \in { <<"B", "o">>, <<"a">> } }

\* the entries of the string tables: a user info or nothing that parses
StringEntries ==
    [table : {"userinfo", "modelprecache"},
     user : { None } \cup { Some(u) : u \in [name : PlayerNames, entity_id : {1, 2}] }]

\* the demo ticks
Ticks == 1..MaxTick

\* the values of the props: a float or a pair of floats
FloatValue(f) == [kind |-> "float", f |-> f, xy |-> <<0, 0>>]
XYValue(x, y) == [kind |-> "xy", f |-> 0, xy |-> <<x, y>>]

\* the props an entity update can carry
PropLists ==
    { <<>>,
      << [identifier |-> "m_vecOrigin", value |-> XYValue(1, 2)] >>,
      << [identifier |-> "m_vecOrigin[2]", value |-> XYValue(1, 2)],
         [identifier |-> "m_iHealth", value |-> FloatValue(1)] >>,
      << [identifier |-> "m_angEyeAngles[0]", value |-> FloatValue(1)],
         [identifier |-> "m_angEyeAngles[1]", value |-> FloatValue(2)] >>,
      << [identifier |-> "m_vecViewOffset[2]", value |-> FloatValue(64)] >> }

\* the PacketEntities messages: the update of one entity
Messages ==
    { [entities |-> << [entity_index |-> id, props |-> props] >>] :
        id \in {1, 2}, props \in PropLists }

\* the view of the recording player in a packet
Metas ==
    { [pitch |-> F32FromInt(1), yaw |-> F32FromInt(2),
       origin |-> <<F32FromInt(1), F32FromInt(2), F32FromInt(3)>>] }

InitAnalyzer == analyzer \in { NewPovAnalyzer(name) : name \in AnalyzerNames }

\* the parser calls a handler; every call is counted
DoHandleHeader ==
    /\ analyzer.handled < MaxDemoCalls
    /\ \E header \in Headers :
          analyzer' = [HandleHeader(analyzer, header) EXCEPT !.handled = @ + 1]
    /\ UNCHANGED notAnalyzer

DoHandleStringEntry ==
    /\ analyzer.handled < MaxDemoCalls
    /\ \E entry \in StringEntries :
          analyzer' = [HandleStringEntry(analyzer, entry.table, entry.user)
                          EXCEPT !.handled = @ + 1]
    /\ UNCHANGED notAnalyzer

DoHandleMessage ==
    /\ analyzer.handled < MaxDemoCalls
    /\ \E message \in Messages, tick \in Ticks :
          analyzer' = [HandleMessage(analyzer, message, tick) EXCEPT !.handled = @ + 1]
    /\ UNCHANGED notAnalyzer

DoHandlePacketMeta ==
    /\ analyzer.handled < MaxDemoCalls
    /\ \E meta \in Metas, tick \in Ticks :
          analyzer' = [HandlePacketMeta(analyzer, tick, meta) EXCEPT !.handled = @ + 1]
    /\ UNCHANGED notAnalyzer

\* the keys of a list are in strictly increasing tick order
C24_StrictlyIncreasing(keys) ==
    \A i \in 1..(Len(keys) - 1) : F32Lt(keys[i].t, keys[i + 1].t)

\* C24: after any sequence of handle_message and handle_packet_meta calls
\* each of the position, pitch and yaw key lists of PovAnalyzer is in
\* strictly increasing tick order, with at most one key per tick.
C24_KeysOrdered ==
    /\ C24_StrictlyIncreasing(analyzer.positions.positions)
    /\ C24_StrictlyIncreasing(analyzer.positions.pitch)
    /\ C24_StrictlyIncreasing(analyzer.positions.yaw)

\* C29: when PovAnalyzer is created with an empty player name, whatever the
\* order in which the header and the user infos arrive and whatever other
\* players there are, the player it selects is the recording player of the
\* demo, the one whose name is the nick of the header: is_pov is true.
C29_TracksRecordingPlayer ==
    (analyzer.given = <<>> /\ analyzer.player # None) =>
        /\ analyzer.is_pov
        /\ analyzer.pov_name # <<>>

-----------------------------------------------------------------------------
(* Loader::exists and Loader::load asked for the same name of one Loader.  *)

\* the names asked for: a level file and a material description
LevelFile == <<"m", ".", "b", "s", "p">>

AssetNames == { LevelFile, File_d_a }

\* the loaders: where the two files are, and which reads fail
LoaderStates ==
    [tf_dir : SUBSET {LevelFile},
     download : SUBSET {LevelFile},
     vpks : { <<>>, << {File_d_a} >>, << {LevelFile}, {File_d_a} >> },
     pack : { None },
     unreadable : SUBSET { <<"fs", LevelFile>>, <<"vpk", File_d_a>>, <<"pack", File_d_a>> }]

\* the embedded packs of the levels
Packs == { {}, {File_d_a}, {File_d_a, LevelFile} }

InitLoader ==
    /\ loader \in LoaderStates
    /\ fn_op = ""
    /\ fn_in \in AssetNames
    /\ fn_out = <<>>

DoSetPack ==
    /\ fn_op = ""
    /\ loader.pack = None
    /\ \E pack \in Packs : loader' = SetPack(loader, pack)
    /\ UNCHANGED fnVars
    /\ UNCHANGED <<msVars, matVars, pipeVars, wkVars, uiVars>>

DoExistsAndLoad ==
    /\ fn_op = ""
    /\ fn_op' = "exists_load"
    /\ fn_out' = [exists |-> Exists(loader, fn_in),
                  load |-> Load(loader, fn_in),
                  found |-> FindInPaths(loader, fn_in, << <<"x", "/">>, <<>> >>)]
    /\ UNCHANGED <<loader, fn_in>>
    /\ UNCHANGED <<msVars, matVars, pipeVars, wkVars, uiVars>>

\* C25: for every asset name and every loader state, with or without an
\* embedded pack, exists(name) is true exactly when load(name) returns
\* bytes, and every path find_in_paths returns can be loaded.
C25_ExistsIffLoads ==
    fn_op = "exists_load" =>
        /\ fn_out.exists <=> fn_out.load.ok
        /\ IsSome(fn_out.found) => Load(loader, Unwrap(fn_out.found)).ok

-----------------------------------------------------------------------------
(* DemoCamera (src/src/control.rs).  The record camera holds its fields,   *)
(* the view last applied to the Camera, and the accumulated time of the    *)
(* last frame.  Times are in ms.  A tick lasts 15 ms (time_per_tick =      *)
(* 0.015) and the speeds are 0.5, 1 and 2, so that every tick the code     *)
(* computes is a whole number of 30ths of a tick, and start_tick and the   *)
(* ticks of the model are counted in 30ths: the arithmetic is exact.       *)
(* The fields paused (the tick of the last pause with 'p'), sought and     *)
(* sped (a slider was moved since), resumed and shown are history.         *)

\* the 30ths of a tick
TickUnits == 30

\* the playback speeds, doubled: 0.5, 1, 2
Speeds == {1, 2, 4}

\* the demos: the number of recorded positions and the first tick
Demos == { [len |-> 2, start_tick |-> 0], [len |-> 1, start_tick |-> 1] }

\* DemoCamera::new
NewDemoCamera(demo) ==
    [demo |-> demo,
     playing |-> FALSE,
     start_tick |-> 0,
     playback_start_time |-> 0,
     ui_tick |-> 0,
     speed |-> 2,
     last_speed |-> 2,
     last_ui_tick |-> 0,
     force_update |-> TRUE,
     view |-> None,
     time |-> 0,
     paused |-> None,
     sought |-> FALSE,
     sped |-> FALSE,
     resumed |-> None,
     shown |-> None]

\* a mutant of demo_tick: the tick playback started from is forgotten
demo_tick_FromZero(c, time) == (time - c.playback_start_time) * c.speed

\* demo_tick: start_tick + (time - playback_start_time) / 1000
\*                              / time_per_tick * speed, in 30ths
demo_tick(c, time) == c.start_tick + (time - c.playback_start_time) * c.speed

\* a mutant of EndOfDemo: the tick has to be past the last position
EndOfDemo_Past(c, tick) == c.demo.len * TickUnits < tick

\* self.demo.positions.len() as f64 <= tick
EndOfDemo(c, tick) == c.demo.len * TickUnits <= tick

\* tick as u32
AsU32(tick) == IF tick < 0 THEN 0 ELSE tick \div TickUnits

\* tick_range
tick_range(c) == c.demo.start_tick..(c.demo.len + c.demo.start_tick)

\* set_tick
set_tick(c, tick, time) ==
    [c EXCEPT !.start_tick = tick * TickUnits,
              !.playback_start_time = time,
              !.force_update = TRUE]

\* ui: the sliders hold the values the user leaves them at
Ui(c, sliders) ==
    [c EXCEPT !.last_ui_tick = c.ui_tick,
              !.last_speed = c.speed,
              !.ui_tick = IF IsSome(sliders.tick) THEN Unwrap(sliders.tick) ELSE @,
              !.speed = IF IsSome(sliders.speed) THEN Unwrap(sliders.speed) ELSE @]

\* post_ui
PostUi(c, time) ==
    IF c.ui_tick # c.last_ui_tick \/ c.speed # c.last_speed
    THEN [set_tick(c, c.ui_tick, time) EXCEPT
             !.sought = @ \/ c.ui_tick # c.last_ui_tick,
             !.sped = @ \/ c.speed # c.last_speed]
    ELSE c

\* the arm of handle for one event
HandleEvent(c, text, accumulated_time) ==
    IF text = "p"
    THEN IF ~c.playing
         THEN [c EXCEPT !.playing = TRUE,
                        !.playback_start_time = accumulated_time,
                        !.resumed = Some([from |-> c.paused, sought |-> c.sought,
                                          sped |-> c.sped]),
                        !.paused = None]
         ELSE [c EXCEPT !.playing = FALSE,
                        !.start_tick = demo_tick(c, accumulated_time),
                        !.paused = Some(demo_tick(c, accumulated_time)),
                        !.sought = FALSE,
                        !.sped = FALSE,
                        !.resumed = None]
    ELSE c

\* for event in events.iter_mut()
RECURSIVE HandleEvents(_, _, _)
HandleEvents(c, events, accumulated_time) ==
    IF events = <<>> THEN c
    ELSE HandleEvents(HandleEvent(c, Head(events), accumulated_time),
                      Tail(events), accumulated_time)

\* DemoCamera::handle; shown is the tick it computed, if it computed one
Handle(c, events, accumulated_time) ==
    LET c0 == [c EXCEPT !.resumed = None, !.shown = None]
        c1 == HandleEvents(c0, events, accumulated_time)
    IN  IF c1.playing \/ c1.force_update
        THEN LET tick == demo_tick(c1, accumulated_time)
                 c2 == [c1 EXCEPT !.ui_tick = AsU32(tick), !.shown = Some(tick)]
             IN  IF EndOfDemo(c2, tick)
                 THEN [c2 EXCEPT !.playing = FALSE,
                                 !.start_tick = demo_tick(c2, accumulated_time),
                                 !.force_update = FALSE,
                                 !.paused = None]
                 ELSE [c2 EXCEPT !.view = Some(tick),
                                 !.force_update = FALSE]
        ELSE c1

\* one frame of the render loop: the gui (ui, post_ui), then handle
Frame(c, sliders, events, time) ==
    [Handle(PostUi(Ui(c, sliders), time), events, time) EXCEPT !.time = time]

\* the time between two frames
FrameTimes == {5, 10}

\* the text events of a frame
EventLists == { <<>>, <<"p">>, <<"x", "p", "p">> }

\* what the user does to the sliders in a frame: one slider is moved
SliderInputs(c) ==
    { [tick |-> None, speed |-> None] }
        \cup { [tick |-> Some(t), speed |-> None] : t \in tick_range(c) }
        \cup { [tick |-> None, speed |-> Some(v)] : v \in Speeds }

InitCamera == camera \in { NewDemoCamera(demo) : demo \in Demos }

\* a frame in which the user presses keys or moves a slider
DoFrame ==
    /\ camera.time < MaxTime
    /\ \E dt \in FrameTimes, events \in EventLists, sliders \in SliderInputs(camera) :
          /\ events # <<>> \/ IsSome(sliders.tick) \/ IsSome(sliders.speed)
          /\ camera' = Frame(camera, sliders, events, camera.time + dt)
    /\ UNCHANGED notCamera

\* a frame without input: time advances
DoIdleFrame ==
    /\ camera.time < MaxTime \/ camera.playing
    /\ \E dt \in FrameTimes :
          camera' = Frame(camera, [tick |-> None, speed |-> None], <<>>, camera.time + dt)
    /\ UNCHANGED notCamera

\* the frame resumed playback with 'p' after a pause with 'p' during which
\* the tick slider was left alone, and computed the tick of the frame
C26_Resumed ==
    /\ IsSome(camera.resumed)
    /\ IsSome(Unwrap(camera.resumed).from)
    /\ ~Unwrap(camera.resumed).sought
    /\ IsSome(camera.shown)

\* C26 as stated: the tick computed on the frame that resumes playback
\* with 'p' is the tick at which playback was paused with 'p', however long
\* the pause lasted and whatever the playback speed.
C26_ResumesWherePaused ==
    C26_Resumed => Unwrap(camera.shown) = Unwrap(Unwrap(camera.resumed).from)

\* C26, amended: the tick computed on the frame that resumes playback is
\* the tick at which playback was paused, for every speed and every length
\* of the pause, when the speed was not changed during the pause.
C26_ResumesWherePausedAtSameSpeed ==
    (C26_Resumed /\ ~Unwrap(camera.resumed).sped) =>
        Unwrap(camera.shown) = Unwrap(Unwrap(camera.resumed).from)

\* C26 witness: playback at half speed was paused between two ticks, stayed
\* paused for more than one frame and was resumed at the tick of the pause
C26_Witness ==
    /\ C26_Resumed
    /\ ~Unwrap(camera.resumed).sped
    /\ camera.speed = 1
    /\ Unwrap(camera.shown) % TickUnits # 0
    /\ Unwrap(camera.shown) = Unwrap(Unwrap(camera.resumed).from)
    /\ camera.playing
    /\ camera.time >= 20

\* after a handle call that computed a tick at or past the number of
\* positions, playback is stopped; a camera that plays has shown a tick
\* before the end
C27_StoppedAtEnd ==
    /\ (IsSome(camera.shown) /\ Unwrap(camera.shown) >= camera.demo.len * TickUnits)
          => ~camera.playing
    /\ (camera.playing /\ camera.time > 0) =>
          /\ IsSome(camera.shown)
          /\ Unwrap(camera.shown) < camera.demo.len * TickUnits

\* a handle call that computed a tick at or past the number of positions
\* left the view of the camera as it was
C27_ViewKept ==
    [][(IsSome(camera'.shown)
          /\ Unwrap(camera'.shown) >= camera'.demo.len * TickUnits)
        => camera'.view = camera.view]_vars

\* C27: in any handle call where the current tick is at or past the number
\* of recorded positions playing becomes false and the view of the camera
\* is not changed; while time advances a playing DemoCamera eventually
\* stops, and it never stays playing past the end.
C27_StopsAtEnd ==
    /\ []C27_StoppedAtEnd
    /\ C27_ViewKept
    /\ (camera.playing ~> ~camera.playing)

\* C27 witness: playback ran into the end of the demo in a frame without
\* input and was stopped there, the view left at a tick before the end
C27_Witness ==
    /\ ~camera.playing
    /\ IsSome(camera.shown)
    /\ Unwrap(camera.shown) > camera.demo.len * TickUnits
    /\ camera.resumed = None
    /\ camera.paused = None
    /\ IsSome(camera.view)
    /\ Unwrap(camera.view) < camera.demo.len * TickUnits
    /\ camera.start_tick = Unwrap(camera.shown)

-----------------------------------------------------------------------------
(* FirstPerson (src/src/control.rs).  The record first_person holds the    *)
(* keys array, the Camera (its position on the ground plane in units of    *)
(* speed, and its yaw in quarter turns), and as history what the last      *)
(* handle call returned, how many camera actions it applied, the key       *)
(* whose most recent event was a press, and the number of frames.          *)

\* Key: the four movement keys and one other
FpKeys == {"W", "S", "A", "D", "Q"}

\* the events of a frame: key presses and releases, and a mouse drag with
\* the left button down
FpEvents ==
    [kind : {"KeyPress", "KeyRelease"}, key : FpKeys]
       \cup { [kind |-> "MouseMotion", key |-> "none"] }

FpEventLists ==
    { <<>> } \cup { <<e>> : e \in FpEvents }
       \cup { <<e1, e2>> : e1 \in FpEvents, e2 \in FpEvents }

\* FirstPerson::new: keys: [false; 4]
NewFirstPerson ==
    [keys     |-> <<FALSE, FALSE, FALSE, FALSE>>,
     camera   |-> [position |-> <<0, 0>>, yaw |-> 0],
     held     |-> {},
     returned |-> None,
     applied  |-> 0,
     frames   |-> 0]

\* FirstPerson::key_press
key_press(keys, key) ==
    CASE key = "W" -> [keys EXCEPT ![1] = TRUE]
      [] key = "S" -> [keys EXCEPT ![2] = TRUE]
      [] key = "A" -> [keys EXCEPT ![3] = TRUE]
      [] key = "D" -> [keys EXCEPT ![4] = TRUE]
      [] OTHER     -> keys

\* FirstPerson::key_release
key_release(keys, key) ==
    CASE key = "W" -> [keys EXCEPT ![1] = FALSE]
      [] key = "S" -> [keys EXCEPT ![2] = FALSE]
      [] key = "A" -> [keys EXCEPT ![3] = FALSE]
      [] key = "D" -> [keys EXCEPT ![4] = FALSE]
      [] OTHER     -> keys

\* the for loop of handle over the events of the frame
FpKeyEvents(keys, events) ==
    LET RECURSIVE Go(_, _)
        Go(k, i) ==
            IF i > Len(events) THEN k
            ELSE Go(CASE events[i].kind = "KeyPress"   -> key_press(k, events[i].key)
                      [] events[i].kind = "KeyRelease" -> key_release(k, events[i].key)
                      [] OTHER                         -> k,
                    i + 1)
    IN  Go(keys, 1)

\* Camera::view_direction and Camera::right_direction on the ground plane
view_direction(cam) ==
    CASE cam.yaw = 0 -> <<1, 0>>
      [] cam.yaw = 1 -> <<0, 1>>
      [] cam.yaw = 2 -> <<-1, 0>>
      [] OTHER       -> <<0, -1>>

right_direction(cam) ==
    LET v == view_direction(cam) IN <<v[2], -v[1]>>

\* Camera::translate
translate(cam, change) ==
    [cam EXCEPT !.position = <<cam.position[1] + change[1],
                               cam.position[2] + change[2]>>]

\* apply_camera_action, for the actions handle uses (x is 1 or -1, the
\* speed is the unit of length); a drag yaws by a quarter turn
apply_camera_action(cam, action, x) ==
    CASE action = "Forward" ->
            translate(cam, <<view_direction(cam)[1] * x, view_direction(cam)[2] * x>>)
      [] action = "Left" ->
            translate(cam, <<-right_direction(cam)[1] * x, -right_direction(cam)[2] * x>>)
      [] action = "Yaw" -> [cam EXCEPT !.yaw = (cam.yaw + x) % 4]
      [] OTHER -> cam

\* CameraControl::handle_events with left_drag_horizontal = Yaw: each drag
\* event is applied, and the change reported is whether there was one
ControlHandleEvents(cam, events) ==
    LET RECURSIVE Go(_, _, _)
        Go(c, change, i) ==
            IF i > Len(events) THEN [camera |-> c, change |-> change]
            ELSE IF events[i].kind = "MouseMotion"
                 THEN Go(apply_camera_action(c, "Yaw", 1), TRUE, i + 1)
                 ELSE Go(c, change, i + 1)
    IN  Go(cam, FALSE, 1)

\* self.keys.iter().fold(change, |change, key| change && *key)
FoldKeys(change, keys) ==
    LET RECURSIVE Go(_, _)
        Go(acc, i) == IF i > 4 THEN acc ELSE Go(acc /\ keys[i], i + 1)
    IN  Go(change, 1)

\* the keys whose most recent event was a press
FpHeld(held, events) ==
    LET RECURSIVE Go(_, _)
        Go(h, i) ==
            IF i > Len(events) THEN h
            ELSE Go(CASE events[i].kind = "KeyPress"   -> h \cup {events[i].key}
                      [] events[i].kind = "KeyRelease" -> h \ {events[i].key}
                      [] OTHER                         -> h,
                    i + 1)
    IN  Go(held, 1)

\* <FirstPerson as Control>::handle
FirstPersonHandle(fp, events) ==
    LET handled == ControlHandleEvents(fp.camera, events)
        keys    == FpKeyEvents(fp.keys, events)
        c1 == IF keys[1] THEN apply_camera_action(handled.camera, "Forward", 1)
              ELSE handled.camera
        c2 == IF keys[2] THEN apply_camera_action(c1, "Forward", -1) ELSE c1
        c3 == IF keys[3] THEN apply_camera_action(c2, "Left", 1) ELSE c2
        c4 == IF keys[4] THEN apply_camera_action(c3, "Left", -1) ELSE c3
    IN  [keys     |-> keys,
         camera   |-> c4,
         held     |-> FpHeld(fp.held, events),
         returned |-> Some(FoldKeys(handled.change, keys)),
         applied  |-> Cardinality({ i \in 1..4 : keys[i] }),
         frames   |-> fp.frames + 1]

InitFirstPerson == first_person = NewFirstPerson

\* one frame of the render loop with the FirstPerson control
DoFirstPersonHandle ==
    /\ first_person # <<>>
    /\ first_person.frames < MaxFrames
    /\ \E events \in FpEventLists :
          first_person' = FirstPersonHandle(first_person, events)
    /\ UNCHANGED notFirstPerson

\* C30: a frame in which at least one of W, S, A, D is held (its most
\* recent event was a press) and the camera was therefore moved made
\* handle return true.
C30_ReportsMovement ==
    (/\ first_person.frames > 0
     /\ first_person.held \cap {"W", "S", "A", "D"} # {}
     /\ first_person.applied > 0)
    => first_person.returned = Some(TRUE)

-----------------------------------------------------------------------------
(* The specifications.  Each runs one component; the variables of the      *)
(* other components rest at their idle values.                             *)

IdleLoader ==
    loader = [tf_dir |-> {}, download |-> {}, vpks |-> <<>>, pack |-> None, unreadable |-> {}]

IdleSet ==
    /\ materials = <<>>
    /\ set_state = "idle"
    /\ drained = <<>>
    /\ calls = {}
    /\ ncalls = 0

IdlePipeline ==
    /\ level = <<>>
    /\ pipe_op = "idle"
    /\ pipe_order = <<>>
    /\ pipe_out = Err("")

IdleMaterial ==
    /\ mat_name = <<>>
    /\ mat_assets = <<>>
    /\ mat_op = "idle"
    /\ mat_result = Err("")
    /\ mat_out = Err("")
    /\ mat_loads = <<>>

IdleWorkers ==
    /\ borrow = 0
    /\ workers = <<>>

IdleFn ==
    /\ fn_op = "idle"
    /\ fn_in = <<>>
    /\ fn_out = <<>>

IdleAnalyzer == analyzer = <<>>

IdleCamera == camera = <<>>

IdleFirstPerson == first_person = <<>>

IdleUi == IdleAnalyzer /\ IdleCamera /\ IdleFirstPerson

\* every component but the numeric functions at rest
IdleComponents ==
    IdleLoader /\ IdleSet /\ IdleMaterial /\ IdlePipeline /\ IdleWorkers /\ IdleUi

\* the MaterialSet: get_index calls, then into_materials
Init == InitSet /\ IdleMaterial /\ IdlePipeline /\ IdleWorkers /\ IdleFn /\ IdleUi

Next ==
    \/ \E info \in TextureInfos : GetIndex(info)
    \/ DoIntoMaterials

Spec == Init /\ [][Next]_vars

\* the material resolver, applied to one material
MaterialInit == InitMaterial /\ IdleLoader /\ IdleSet /\ IdlePipeline /\ IdleWorkers /\ IdleFn /\ IdleUi

MaterialNext ==
    \/ DoLoadMaterialFallback
    \/ DoPropTextureToMaterial

SpecMaterial == MaterialInit /\ [][MaterialNext]_vars

\* the pipeline, applied to one level
PipelineInit == InitPipeline /\ IdleSet /\ IdleMaterial /\ IdleWorkers /\ IdleFn /\ IdleUi

PipelineNext ==
    \/ DoLoadMap
    \/ DoLoadProps
    \/ DoBspLoadProps

SpecPipeline == PipelineInit /\ [][PipelineNext]_vars

\* the world geometry extractor, applied to one level model
WorldInit == InitWorld /\ IdleSet /\ IdleMaterial /\ IdleWorkers /\ IdleFn /\ IdleUi

WorldNext == DoModelToModel

SpecWorld == WorldInit /\ [][WorldNext]_vars

\* one MaterialSet shared by workers that call get_index at the same time
ConcurrentInit == InitWorkers /\ IdleMaterial /\ IdlePipeline /\ IdleFn /\ IdleUi

ConcurrentNext ==
    \E w \in Workers :
        \/ WorkerResolve(w)
        \/ WorkerReadBorrow(w)
        \/ WorkerBorrowMut(w)
        \/ WorkerFind(w)
        \/ WorkerLen(w)
        \/ WorkerPush(w)
        \/ WorkerDrop(w)

SpecConcurrent == ConcurrentInit /\ [][ConcurrentNext]_vars

\* map_coords, applied to vectors
CoordsInit == InitMapCoords /\ IdleComponents

CoordsNext == DoMapCoords

SpecCoords == CoordsInit /\ [][CoordsNext]_vars

\* unwrap and Wrapping::lerp, applied to two numbers of a range
WrappingInit == InitWrapping /\ IdleComponents

WrappingNext ==
    \/ DoUnwrap
    \/ DoLerp

SpecWrapping == WrappingInit /\ [][WrappingNext]_vars

\* find_in_paths, applied to one name and one list of prefixes
ProbeInit ==
    InitFindInPaths /\ IdleSet /\ IdleMaterial /\ IdlePipeline /\ IdleWorkers /\ IdleUi

ProbeNext == DoFindInPaths

SpecProbe == ProbeInit /\ [][ProbeNext]_vars

\* the render loop drives one DemoCamera; the frames without input are
\* rendered as long as the program runs
CameraInit ==
    /\ InitCamera
    /\ IdleLoader /\ IdleSet /\ IdleMaterial /\ IdlePipeline /\ IdleWorkers /\ IdleFn
    /\ IdleAnalyzer /\ IdleFirstPerson

CameraNext == DoFrame \/ DoIdleFrame

SpecCamera == CameraInit /\ [][CameraNext]_vars

SpecCameraLive == SpecCamera /\ WF_vars(DoIdleFrame)

FirstPersonInit ==
    /\ IdleLoader /\ IdleSet /\ IdleMaterial /\ IdlePipeline /\ IdleWorkers /\ IdleFn
    /\ IdleAnalyzer /\ IdleCamera
    /\ InitFirstPerson

FirstPersonNext == DoFirstPersonHandle

SpecFirstPerson == FirstPersonInit /\ [][FirstPersonNext]_vars

\* exists and load on one Loader, before or after set_pack
LoaderInit == InitLoader /\ IdleSet /\ IdleMaterial /\ IdlePipeline /\ IdleWorkers /\ IdleUi

LoaderNext == DoSetPack \/ DoExistsAndLoad

SpecLoader == LoaderInit /\ [][LoaderNext]_vars

\* the demo parser drives one PovAnalyzer
DemoInit ==
    /\ InitAnalyzer
    /\ IdleLoader /\ IdleSet /\ IdleMaterial /\ IdlePipeline /\ IdleWorkers /\ IdleFn
    /\ IdleCamera /\ IdleFirstPerson

DemoNext ==
    \/ DoHandleHeader
    \/ DoHandleStringEntry
    \/ DoHandleMessage
    \/ DoHandlePacketMeta

SpecDemo == DemoInit /\ [][DemoNext]_vars

\* model_to_mesh applied to the faces of a model
MeshInit == InitModelToMesh /\ IdleComponents

MeshNext == DoModelToMesh

SpecMesh == MeshInit /\ [][MeshNext]_vars

\* convert_material applied to a MaterialData
ConvertInit == InitConvert /\ IdleComponents

ConvertNext == DoConvertMaterial

SpecConvert == ConvertInit /\ [][ConvertNext]_vars

=============================================================================
